---------------------------- MODULE Spec2Model ----------------------------
(***************************************************************************)
(* A model of the MCCI Catena SCD30 library: the cSCD30 sensor driver      *)
(* (src/src/MCCI_Catena_SCD30.{h,cpp}) and the cMeasurementLoop uplink     *)
(* state machine of the scd30_lorawan example                              *)
(* (src/examples/scd30_lorawan/cMeasurementLoop.cpp).                      *)
(*                                                                         *)
(* Time is the 32-bit millisecond clock millis().  A driver method is one  *)
(* step: it reads the clock once, and the short delay(3) after a command   *)
(* write does not advance the model clock.  The I2C bus is the             *)
(* environment: every transaction's outcome and every value the device     *)
(* returns is an input of the step.                                        *)
(***************************************************************************)
EXTENDS Integers, Sequences, FiniteSets, TLC

VARIABLES
    now,        \* millis()
    ticks,      \* number of clock steps or deep sleeps so far (bounded)
    scd,        \* the cSCD30 object's fields
    lastOp,     \* history: the last call or handler run, its inputs and results
    loop        \* the cMeasurementLoop object's fields and its FSM engine

vars == <<now, ticks, scd, lastOp, loop>>

(***************************************************************************)
(* Bounds of the model.                                                    *)
(***************************************************************************)
\* clock steps between the calls made to the driver used directly
MaxTicks == 1

\* deep sleeps of the sketch
MaxSleeps == 1

(***************************************************************************)
(* 32-bit and 8-bit arithmetic.                                            *)
(***************************************************************************)
\* A std::uint32_t is the pair <<high 16 bits, low 16 bits>>: TLC's integers
\* are themselves 32 bits wide, so the value is kept in two halves and the
\* arithmetic modulo 2^32 is done on the halves.
IsU32(a) == a[1] \in 0..65535 /\ a[2] \in 0..65535

\* the std::uint32_t of a number 0 <= n < 2^31
U32(n) == <<(n \div 65536) % 65536, n % 65536>>

\* a + b and a - b, modulo 2^32
U32Add(a, b) ==
    LET lo == a[2] + b[2]
    IN  <<(a[1] + b[1] + (lo \div 65536)) % 65536, lo % 65536>>

U32Sub(a, b) ==
    LET lo == a[2] - b[2] + 65536
    IN  <<(a[1] - b[1] + 65535 + (lo \div 65536)) % 65536, lo % 65536>>

\* (std::int32_t) a < 0
I32Neg(a) == a[1] >= 32768

\* a < n and a > n for a number 0 <= n < 2^31
U32Less(a, n) == a[1] < U32(n)[1] \/ (a[1] = U32(n)[1] /\ a[2] < U32(n)[2])

U32Greater(a, n) == a[1] > U32(n)[1] \/ (a[1] = U32(n)[1] /\ a[2] > U32(n)[2])

\* a < b for two std::uint32_t
U32Lt(a, b) == a[1] < b[1] \/ (a[1] = b[1] /\ a[2] < b[2])

\* a / 1000, a number (at most 4294967)
U32Div1000(a) ==
    (a[1] \div 1000) * 65536 + (((a[1] % 1000) * 65536 + a[2]) \div 1000)

\* (std::int16_t) of a 16-bit unsigned value
I16(x) == IF (x % 65536) >= 32768 THEN (x % 65536) - 65536 ELSE x % 65536

RECURSIVE XorN(_, _, _)
XorN(a, b, n) ==
    IF n = 0 THEN 0
    ELSE (((a % 2) + (b % 2)) % 2) + 2 * XorN(a \div 2, b \div 2, n - 1)

\* a ^ b on 4-bit values, tabulated once
XorNibble == [a \in 0..15 |-> [b \in 0..15 |-> XorN(a, b, 4)]]

\* a ^ b on 8-bit values
Xor8(a, b) ==
    XorNibble[a \div 16][b \div 16] * 16 + XorNibble[a % 16][b % 16]

(***************************************************************************)
(* cSCD30::State, in declaration order (isRunning compares the order).     *)
(***************************************************************************)
States == <<"Uninitialized", "End", "Initial", "Idle", "Triggered", "Ready">>

StateSet == {States[i] : i \in 1..Len(States)}

StateOrd(s) == CHOOSE i \in 1..Len(States) : States[i] = s

Errors ==
    {"Success", "NoWire", "CommandWriteFailed", "CommandWriteBufferFailed",
     "InternalInvalidParameter", "I2cReadShort", "I2cReadRequest",
     "I2cReadLong", "Busy", "NotMeasuring", "Crc", "Uninitialized",
     "InvalidParameter", "InternalInvalidState", "SensorUpdateFailed"}

(***************************************************************************)
(* cSCD30::Command codes.                                                  *)
(***************************************************************************)
Command ==
    [StartContinuousMeasurement |-> 54,      \* 0x0036
     StopContinuosMeasurement   |-> 260,     \* 0x0104
     GetDataReady               |-> 514,     \* 0x0202
     ReadMeasurement            |-> 768,     \* 0x0300
     SetMeasurementInterval     |-> 17920,   \* 0x4600
     AltitudeCompensation       |-> 20738,   \* 0x5102
     SetForcedRecalibration     |-> 20996,   \* 0x5204
     EnableAutoSelfCal          |-> 21254,   \* 0x5306
     SetTemperatureOffset       |-> 21507,   \* 0x5403
     ReadFirmwareVersion        |-> 53504,   \* 0xD100
     SoftReset                  |-> 54020]   \* 0xD304

(***************************************************************************)
(* cSCD30::crc: CRC-8, polynomial 0x31, one byte in two nibble steps.      *)
(***************************************************************************)
crcTable ==
    <<0, 49, 98, 83, 196, 245, 166, 151, 185, 136, 219, 234, 125, 76, 31, 46>>

\* the loop body with the second nibble taken from the high half of b
crcByte_highNibble(crc8, b) ==
    LET p1 == Xor8(b, crc8) \div 16
        c1 == Xor8((crc8 * 16) % 256, crcTable[p1 + 1])
        p2 == Xor8(c1, b) \div 16
    IN  Xor8((c1 * 16) % 256, crcTable[p2 + 1])

\* one iteration of the loop: the two nibble steps for the byte b
crcByte(crc8, b) ==
    LET p1 == Xor8(b, crc8) \div 16
        c1 == Xor8((crc8 * 16) % 256, crcTable[p1 + 1])
        p2 == Xor8(c1 \div 16, b) % 16
    IN  Xor8((c1 * 16) % 256, crcTable[p2 + 1])

\* crcByte tabulated over all (crc8, b), so that a byte costs one lookup
crcStep == [crc8 \in 0..255 |-> [b \in 0..255 |-> crcByte(crc8, b)]]

\* the loop over the nBuf bytes of buf
RECURSIVE crcFrom(_, _, _)
crcFrom(buf, i, crc8) ==
    IF i > Len(buf) THEN crc8
    ELSE crcFrom(buf, i + 1, crcStep[crc8][buf[i]])

\* the default argument crc8 = 0xFF
crc(buf) == crcFrom(buf, 1, 255)

(***************************************************************************)
(* The environment: the I2C bus and the device behind it.                  *)
(*                                                                         *)
(* A public driver call takes an input io that fixes what the bus does     *)
(* during the call: the failAt-th command exchange of the call fails in    *)
(* the way io.kind names (0: none fails), and every other exchange         *)
(* succeeds.  A successful read of the measurement interval or of the      *)
(* data-ready flag carries the 16-bit value io.v, a successful read of a   *)
(* measurement the three 32-bit words of io.meas, and a successful read of *)
(* another register that register's fixed content.                         *)
(***************************************************************************)
WriteKinds == {"WriteShort", "WriteNack"}
ReadKinds  == {"ReadRequest", "ReadShort", "ReadLong", "BadCrc"}

\* the failures drawn as inputs: one of the command write, one of the
\* response transfer, one of the response's integrity
FailKinds  == {"WriteNack", "ReadShort", "BadCrc"}

\* measurement words (CO2, temperature, relative humidity) the device may
\* return: 412.5/25.0/50.0 and NaN/denormal/-denormal
MeasVals ==
    { <<(<<17358, 16384>>), (<<16840, 0>>), (<<16968, 0>>)>>,
      <<(<<32704, 0>>), (<<0, 1>>), (<<32768, 1>>)>> }

\* the inputs of a call in which no exchange fails, and those in which one
\* of the first n exchanges fails
IoOk(vals, meass) ==
    { [failAt |-> 0, kind |-> "Ok", v |-> v, meas |-> m] :
            v \in vals, m \in meass }

IoFail(n, vals, meass) ==
    [failAt : 1..n, kind : FailKinds, v : vals, meas : meass]

NoMeas == { <<(<<0, 0>>), (<<0, 0>>), (<<0, 0>>)>> }

Frame3(v) == <<v \div 256, v % 256, crc(<<v \div 256, v % 256>>)>>

WordBytes(w) == Frame3(w[1]) \o Frame3(w[2])

MeasBytes(m) == WordBytes(m[1]) \o WordBytes(m[2]) \o WordBytes(m[3])

\* the bytes 1..n of s, padded with zeros
Take(s, n) == [i \in 1..n |-> IF i <= Len(s) THEN s[i] ELSE 0]

\* a response with the CRC byte of its last group corrupted
Corrupt(s) ==
    IF s = <<>> THEN s
    ELSE [s EXCEPT ![Len(s)] = Xor8(@, 1)]

NumWrites(log) == Cardinality({i \in DOMAIN log : log[i].t = "w"})

LastWritten(log) ==
    LET W == {i \in DOMAIN log : log[i].t = "w"}
    IN  IF W = {} THEN <<>>
        ELSE log[CHOOSE i \in W : \A j \in W : j <= i].bytes

\* the content of the device's other registers: firmware 3.66, ASC on,
\* FRC 400 ppm, temperature offset 0xFFFF, altitude 300 m
DeviceRegister(cmd) ==
    IF cmd = Command.ReadFirmwareVersion THEN 834
    ELSE IF cmd = Command.EnableAutoSelfCal THEN 1
    ELSE IF cmd = Command.SetForcedRecalibration THEN 400
    ELSE IF cmd = Command.SetTemperatureOffset THEN 65535
    ELSE IF cmd = Command.AltitudeCompensation THEN 300
    ELSE 0

\* what the device would answer to the last command written
DeviceAnswer(log, io) ==
    LET f   == LastWritten(log)
        cmd == IF Len(f) >= 2 THEN f[1] * 256 + f[2] ELSE 0
    IN  IF cmd = Command.ReadMeasurement THEN MeasBytes(io.meas)
        ELSE IF cmd \in {Command.SetMeasurementInterval, Command.GetDataReady}
        THEN Frame3(io.v)
        ELSE Frame3(DeviceRegister(cmd))

\* Wire.write()/endTransmission() of the k-th command of the call
WireWrite(io, k) ==
    IF io.failAt = k /\ io.kind \in WriteKinds THEN io.kind ELSE "Ok"

\* Wire.requestFrom()/available()/read() after the k-th command of the call
WireRead(io, k, log, nBuf) ==
    LET kind == IF io.failAt = k /\ io.kind \in ReadKinds THEN io.kind ELSE "Ok"
        full == Take(DeviceAnswer(log, io), nBuf)
    IN  [nReadFrom |-> IF kind = "ReadRequest" THEN 0 ELSE nBuf,
         nResult   |-> IF kind = "ReadShort" /\ nBuf > 0 THEN nBuf - 1
                       ELSE IF kind = "ReadLong" THEN nBuf + 1
                       ELSE nBuf,
         bytes     |-> IF kind = "BadCrc" THEN Corrupt(full) ELSE full]

(***************************************************************************)
(* The cSCD30 object.  m_wire is bound by the constructor (a reference),   *)
(* m_address is Address::SCD30; neither changes.  Only m_state has an      *)
(* initialiser: the other fields start with indeterminate values.          *)
(***************************************************************************)
getAddress == 97

ProductInfo(fw, mi, asc, frc, toff, alt) ==
    [FirmwareVersion |-> fw, MeasurementInterval |-> mi, fASC_status |-> asc,
     ForcedRecalibrationValue |-> frc, TemperatureOffset |-> toff,
     AltitudeCompensation |-> alt]

Measurement(co2, t, rh) ==
    [CO2ppm |-> co2, Temperature |-> t, RelativeHumidity |-> rh]

\* a call in progress: the object d, the bus transactions made so far (each
\* with the m_state it was made in), whether setLastError has been called,
\* the value returned and the out-parameters
Call(d) ==
    [d |-> d, log |-> <<>>, errSet |-> FALSE, ret |-> TRUE,
     val |-> 0, buf |-> <<>>, fError |-> FALSE]

Return(c, r) == [c EXCEPT !.ret = r]

\* a statement sequence: the result v of one call, held in a local that the
\* statements K after it read
Bind(v, K(_)) == K(v)

setLastError(c, e) ==
    [c EXCEPT !.d.m_lastError = e, !.errSet = TRUE, !.ret = (e = "Success")]

isRunning(d) == StateOrd(d.m_state) > StateOrd("End")

\* checkRunning failing without recording the error
checkRunning_silent(c) ==
    IF ~isRunning(c.d) THEN Return(c, FALSE)
    ELSE Return(c, TRUE)

checkRunning(c) ==
    IF ~isRunning(c.d) THEN setLastError(c, "Uninitialized")
    ELSE Return(c, TRUE)

getUint16BE(p) == (p[1] * 256 + p[2]) % 65536

\* the bit pattern of the float returned, as a std::uint32_t
getFloat32BE(p) ==
    LET v == <<p[1] * 256 + p[2], p[4] * 256 + p[5]>>
        e == (v[1] \div 128) % 256         \* v.uint & 0x7F800000u
    IN  IF e = 255 THEN <<0, 0>>
        ELSE IF e = 0 THEN <<(v[1] \div 128) * 128, 0>>
        ELSE v

\* the getters of the cached measurement
getTemperature(d) == d.m_Measurement.Temperature

getCO2ppm(d) == d.m_Measurement.CO2ppm

getRelativeHumidity(d) == d.m_Measurement.CO2ppm

getMeasurement(d) == d.m_Measurement

getMsToNextMeasurement(d, t) ==
    IF I32Neg(U32Sub(d.m_tReady, t)) THEN U32(0) ELSE U32Sub(d.m_tReady, t)

RECURSIVE crc_multi_from(_, _, _)
crc_multi_from(c, buf, i) ==
    IF Len(buf) - i + 1 >= 3
    THEN IF crc(<<buf[i], buf[i + 1]>>) # buf[i + 2]
         THEN setLastError(c, "Crc")
         ELSE crc_multi_from(c, buf, i + 3)
    ELSE IF Len(buf) - i + 1 # 0
         THEN setLastError(c, "InternalInvalidParameter")
         ELSE Return(c, TRUE)

crc_multi(c, buf) == crc_multi_from(c, buf, 1)

writeCommandBuffer(c, pBuffer, io) ==
    LET k  == NumWrites(c.log) + 1
        c1 == [c EXCEPT !.log = Append(@, [t |-> "w", bytes |-> pBuffer,
                                            st |-> c.d.m_state])]
    IN  IF WireWrite(io, k) = "WriteShort"
        THEN setLastError(c1, "CommandWriteBufferFailed")
        ELSE IF WireWrite(io, k) = "WriteNack"
        THEN setLastError(c1, "CommandWriteFailed")
        ELSE Return(c1, TRUE)

writeCommand(c, command, io) ==
    writeCommandBuffer(c, <<command \div 256, command % 256>>, io)

writeCommandParam(c, command, param, io) ==
    LET p == <<(param \div 256) % 256, param % 256>>
    IN  writeCommandBuffer(
            c, <<command \div 256, command % 256, p[1], p[2], crc(p)>>, io)

\* 011111111111 octal: bits 0, 3, 6, ..., 30
MultipleOf3Mask == 1227133513

readResponse(c, nBuf, io) ==
    IF nBuf > 30 \/ getAddress < 0 \/ (MultipleOf3Mask \div (2^nBuf)) % 2 = 0
    THEN setLastError(c, "InternalInvalidParameter")
    ELSE
    Bind(WireRead(io, NumWrites(c.log), c.log, nBuf), LAMBDA rd :
    Bind([c EXCEPT !.log = Append(@, [t |-> "r", bytes |-> <<nBuf>>,
                                       st |-> c.d.m_state])], LAMBDA c1 :
        IF rd.nReadFrom # nBuf THEN setLastError(c1, "I2cReadRequest")
        ELSE IF rd.nResult > nBuf THEN setLastError(c1, "I2cReadLong")
        ELSE IF rd.nResult # nBuf
        THEN setLastError([c1 EXCEPT !.buf = Take(rd.bytes, rd.nResult)],
                          "I2cReadShort")
        ELSE crc_multi([c1 EXCEPT !.buf = rd.bytes], rd.bytes)))

readUint16(c, cmd, io) ==
    Bind(checkRunning(c), LAMBDA c1 :
    Bind(IF c1.ret THEN writeCommand(c1, cmd, io) ELSE c1, LAMBDA c2 :
    Bind(IF c2.ret THEN readResponse(c2, 3, io) ELSE c2, LAMBDA c3 :
        IF c3.ret THEN [c3 EXCEPT !.val = getUint16BE(c3.buf)]
        ELSE [c3 EXCEPT !.val = 0])))

readFirmwareVersion(c, io) == readUint16(c, Command.ReadFirmwareVersion, io)

readMeasurementInterval(c, io) ==
    readUint16(c, Command.SetMeasurementInterval, io)

readAutoSelfCalibration(c, io) == readUint16(c, Command.EnableAutoSelfCal, io)

readForcedRecalibrationValue(c, io) ==
    readUint16(c, Command.SetForcedRecalibration, io)

readTemperatureOffset(c, io) ==
    [readUint16(c, Command.SetTemperatureOffset, io) EXCEPT !.val = I16(@)]

readAltitudeCompensation(c, io) ==
    [readUint16(c, Command.AltitudeCompensation, io) EXCEPT !.val = I16(@)]

readDataReadyStatus(c, io) == readUint16(c, Command.GetDataReady, io)

\* readProductInfo reading each value straight into m_ProductInfo
readProductInfo_inPlace(c, io) ==
    Bind(checkRunning(c), LAMBDA c0 :
    IF ~c0.ret THEN Return(c0, FALSE) ELSE
    Bind(readFirmwareVersion(c0, io), LAMBDA r1 :
    Bind([r1 EXCEPT !.d.m_ProductInfo.FirmwareVersion = r1.val], LAMBDA i1 :
    IF ~r1.ret THEN Return(i1, FALSE) ELSE
    Bind(readMeasurementInterval(i1, io), LAMBDA r2 :
    Bind([r2 EXCEPT !.d.m_ProductInfo.MeasurementInterval = r2.val], LAMBDA i2 :
    IF ~r2.ret THEN Return(i2, FALSE) ELSE
    Bind(readAutoSelfCalibration(i2, io), LAMBDA r3 :
    Bind([r3 EXCEPT !.d.m_ProductInfo.fASC_status = r3.val], LAMBDA i3 :
    IF ~r3.ret THEN Return(i3, FALSE) ELSE
    Bind(readForcedRecalibrationValue(i3, io), LAMBDA r4 :
    Bind([r4 EXCEPT !.d.m_ProductInfo.ForcedRecalibrationValue = r4.val],
         LAMBDA i4 :
    IF ~r4.ret THEN Return(i4, FALSE) ELSE
    Bind(readTemperatureOffset(i4, io), LAMBDA r5 :
    Bind([r5 EXCEPT !.d.m_ProductInfo.TemperatureOffset = r5.val], LAMBDA i5 :
    IF ~r5.ret THEN Return(i5, FALSE) ELSE
    Bind(readAltitudeCompensation(i5, io), LAMBDA r6 :
        Return([r6 EXCEPT !.d.m_ProductInfo.AltitudeCompensation = r6.val],
               r6.ret)))))))))))))

readProductInfo(c, io) ==
    Bind(checkRunning(c), LAMBDA c0 :
    IF ~c0.ret THEN Return(c0, FALSE) ELSE
    Bind(readFirmwareVersion(c0, io), LAMBDA r1 :
    IF ~r1.ret THEN Return(r1, FALSE) ELSE
    Bind(readMeasurementInterval(r1, io), LAMBDA r2 :
    IF ~r2.ret THEN Return(r2, FALSE) ELSE
    Bind(readAutoSelfCalibration(r2, io), LAMBDA r3 :
    IF ~r3.ret THEN Return(r3, FALSE) ELSE
    Bind(readForcedRecalibrationValue(r3, io), LAMBDA r4 :
    IF ~r4.ret THEN Return(r4, FALSE) ELSE
    Bind(readTemperatureOffset(r4, io), LAMBDA r5 :
    IF ~r5.ret THEN Return(r5, FALSE) ELSE
    Bind(readAltitudeCompensation(r5, io), LAMBDA r6 :
    IF ~r6.ret THEN Return(r6, FALSE) ELSE
        Return([r6 EXCEPT !.d.m_ProductInfo =
                    ProductInfo(r1.val, r2.val, r3.val, r4.val,
                                r5.val, r6.val)], TRUE))))))))

(***************************************************************************)
(* The public methods of cSCD30.  t is millis().                           *)
(***************************************************************************)
\* begin with the two restart states exchanged
begin_swapped(c, t, io) ==
    IF isRunning(c.d) THEN Return(c, TRUE)
    ELSE
    Bind(readProductInfo(
            [c EXCEPT !.d.m_state =
                IF @ = "End" THEN "Initial" ELSE "Triggered"], io), LAMBDA r :
    Bind(U32Add(t, U32(r.d.m_ProductInfo.MeasurementInterval * 1000)),
         LAMBDA t1 :
        IF r.ret
        THEN Return([r EXCEPT !.d.m_tReady =
                        IF r.d.m_state = "Initial" THEN U32Add(t1, U32(500))
                        ELSE t1],
                    TRUE)
        ELSE Return([r EXCEPT !.d.m_state = "Uninitialized"], FALSE)))

\* begin without the early return for a running driver
begin_always(c, t, io) ==
    Bind(readProductInfo(
            [c EXCEPT !.d.m_state =
                IF @ = "End" THEN "Triggered" ELSE "Initial"], io), LAMBDA r :
    Bind(U32Add(t, U32(r.d.m_ProductInfo.MeasurementInterval * 1000)),
         LAMBDA t1 :
        IF r.ret
        THEN Return([r EXCEPT !.d.m_tReady =
                        IF r.d.m_state = "Initial" THEN U32Add(t1, U32(500))
                        ELSE t1],
                    TRUE)
        ELSE Return([r EXCEPT !.d.m_state = "Uninitialized"], FALSE)))

begin(c, t, io) ==
    IF isRunning(c.d) THEN Return(c, TRUE)
    ELSE
    Bind(readProductInfo(
            [c EXCEPT !.d.m_state =
                IF @ = "End" THEN "Triggered" ELSE "Initial"], io), LAMBDA r :
    Bind(U32Add(t, U32(r.d.m_ProductInfo.MeasurementInterval * 1000)),
         LAMBDA t1 :
        IF r.ret
        THEN Return([r EXCEPT !.d.m_tReady =
                        IF r.d.m_state = "Initial" THEN U32Add(t1, U32(500))
                        ELSE t1],
                    TRUE)
        ELSE Return([r EXCEPT !.d.m_state = "Uninitialized"], FALSE)))

\* end() without the test of isRunning()
end_always(c) == [c EXCEPT !.d.m_state = "End"]

end(c) ==
    IF isRunning(c.d) THEN [c EXCEPT !.d.m_state = "End"] ELSE c

\* the parameter is not used: the command is written without it
startContinuousMeasurementCommon(c, t, param, io) ==
    Bind(checkRunning(c), LAMBDA c0 :
    IF ~c0.ret THEN Return(c0, FALSE) ELSE
    Bind(writeCommand(c0, Command.StartContinuousMeasurement, io), LAMBDA r :
        IF r.ret
        THEN Return([r EXCEPT
                        !.d.m_state = "Triggered",
                        !.d.m_tReady =
                            U32Add(t, U32(r.d.m_ProductInfo.MeasurementInterval
                                          * 1000))],
                    TRUE)
        ELSE r))

startContinuousMeasurement(c, t, io) ==
    startContinuousMeasurementCommon(c, t, 0, io)

startContinuousMeasurementPressure(c, t, pressure_mBar, io) ==
    IF pressure_mBar < 700 \/ pressure_mBar > 1400
    THEN setLastError(c, "InvalidParameter")
    ELSE startContinuousMeasurementCommon(c, t, pressure_mBar, io)

setMeasurementInterval(c, interval, io) ==
    IF interval < 2 THEN setLastError(c, "InvalidParameter")
    ELSE
    Bind(checkRunning(c), LAMBDA c0 :
    Bind(IF c0.ret
         THEN writeCommandParam(c0, Command.SetMeasurementInterval,
                                interval, io)
         ELSE c0, LAMBDA w :
    Bind(IF w.ret THEN readMeasurementInterval(w, io) ELSE w, LAMBDA r :
        IF w.ret /\ r.ret
        THEN [r EXCEPT !.d.m_ProductInfo.MeasurementInterval = r.val]
        ELSE r)))

\* the poll taking the data-ready flag as set whatever was read
queryReadyPoll_anyFlag(c0, t, io) ==
    Bind(readDataReadyStatus(c0, io), LAMBDA r :
        IF ~r.ret
        THEN [r EXCEPT !.fError = TRUE,
                       !.d.m_tReady = U32Add(t, U32(1000)),
                       !.ret = FALSE]
        ELSE [r EXCEPT !.d.m_state = "Ready",
                       !.fError = FALSE,
                       !.ret = TRUE])

\* the poll leaving the ready time as it was when the status read fails
queryReadyPoll_noRetryDelay(c0, t, io) ==
    Bind(readDataReadyStatus(c0, io), LAMBDA r :
        IF ~r.ret
        THEN [r EXCEPT !.fError = TRUE, !.ret = FALSE]
        ELSE IF r.val # 0
        THEN [r EXCEPT !.d.m_state = "Ready",
                       !.fError = FALSE,
                       !.ret = TRUE]
        ELSE IF r.d.m_state = "Initial"
        THEN
            Bind(startContinuousMeasurement(r, t, io), LAMBDA s :
                IF ~s.ret
                THEN [s EXCEPT !.fError = TRUE,
                               !.d.m_tReady = U32Add(t, U32(1000)),
                               !.ret = FALSE]
                ELSE setLastError([s EXCEPT !.fError = FALSE], "Busy"))
        ELSE setLastError(
                [r EXCEPT !.fError = FALSE,
                          !.d.m_tReady = U32Add(t, U32(100))], "Busy"))

\* the poll of the data-ready flag made in Triggered and Initial once the
\* ready time has come
queryReadyPoll(c0, t, io) ==
    Bind(readDataReadyStatus(c0, io), LAMBDA r :
        IF ~r.ret
        THEN [r EXCEPT !.fError = TRUE,
                       !.d.m_tReady = U32Add(t, U32(1000)),
                       !.ret = FALSE]
        ELSE IF r.val # 0
        THEN [r EXCEPT !.d.m_state = "Ready",
                       !.fError = FALSE,
                       !.ret = TRUE]
        ELSE IF r.d.m_state = "Initial"
        THEN
            Bind(startContinuousMeasurement(r, t, io), LAMBDA s :
                IF ~s.ret
                THEN [s EXCEPT !.fError = TRUE,
                               !.d.m_tReady = U32Add(t, U32(1000)),
                               !.ret = FALSE]
                ELSE setLastError([s EXCEPT !.fError = FALSE], "Busy"))
        ELSE setLastError(
                [r EXCEPT !.fError = FALSE,
                          !.d.m_tReady = U32Add(t, U32(100))], "Busy"))

\* queryReady without the test of the ready time
queryReady_noWait(c, t, io) ==
    Bind(checkRunning(c), LAMBDA c0 :
        IF ~c0.ret THEN [c0 EXCEPT !.fError = TRUE, !.ret = FALSE]
        ELSE IF c0.d.m_state = "Ready"
        THEN [c0 EXCEPT !.fError = FALSE, !.ret = TRUE]
        ELSE IF c0.d.m_state = "Idle"
        THEN setLastError([c0 EXCEPT !.fError = TRUE], "NotMeasuring")
        ELSE IF c0.d.m_state \in {"Triggered", "Initial"}
        THEN queryReadyPoll(c0, t, io)
        ELSE setLastError([c0 EXCEPT !.fError = TRUE], "InternalInvalidState"))

\* queryReady testing the ready time before the state Ready
queryReady_timeFirst(c, t, io) ==
    Bind(checkRunning(c), LAMBDA c0 :
        IF ~c0.ret THEN [c0 EXCEPT !.fError = TRUE, !.ret = FALSE]
        ELSE IF c0.d.m_state = "Idle"
        THEN setLastError([c0 EXCEPT !.fError = TRUE], "NotMeasuring")
        ELSE IF I32Neg(U32Sub(t, c0.d.m_tReady))
        THEN setLastError([c0 EXCEPT !.fError = FALSE], "Busy")
        ELSE IF c0.d.m_state \in {"Triggered", "Initial"}
        THEN queryReadyPoll(c0, t, io)
        ELSE IF c0.d.m_state = "Ready"
        THEN [c0 EXCEPT !.fError = FALSE, !.ret = TRUE]
        ELSE setLastError([c0 EXCEPT !.fError = TRUE], "InternalInvalidState"))

\* queryReady polling in Triggered only
queryReady_noInitial(c, t, io) ==
    Bind(checkRunning(c), LAMBDA c0 :
        IF ~c0.ret THEN [c0 EXCEPT !.fError = TRUE, !.ret = FALSE]
        ELSE IF c0.d.m_state = "Ready"
        THEN [c0 EXCEPT !.fError = FALSE, !.ret = TRUE]
        ELSE IF c0.d.m_state = "Idle"
        THEN setLastError([c0 EXCEPT !.fError = TRUE], "NotMeasuring")
        ELSE IF I32Neg(U32Sub(t, c0.d.m_tReady))
        THEN setLastError([c0 EXCEPT !.fError = FALSE], "Busy")
        ELSE IF c0.d.m_state = "Triggered"
        THEN queryReadyPoll(c0, t, io)
        ELSE setLastError([c0 EXCEPT !.fError = TRUE], "InternalInvalidState"))

queryReady(c, t, io) ==
    Bind(checkRunning(c), LAMBDA c0 :
        IF ~c0.ret THEN [c0 EXCEPT !.fError = TRUE, !.ret = FALSE]
        ELSE IF c0.d.m_state = "Ready"
        THEN [c0 EXCEPT !.fError = FALSE, !.ret = TRUE]
        ELSE IF c0.d.m_state = "Idle"
        THEN setLastError([c0 EXCEPT !.fError = TRUE], "NotMeasuring")
        ELSE IF I32Neg(U32Sub(t, c0.d.m_tReady))
        THEN setLastError([c0 EXCEPT !.fError = FALSE], "Busy")
        ELSE IF c0.d.m_state \in {"Triggered", "Initial"}
        THEN queryReadyPoll(c0, t, io)
        ELSE IF c0.d.m_state = "Ready"
        THEN [c0 EXCEPT !.fError = FALSE, !.ret = TRUE]
        ELSE setLastError([c0 EXCEPT !.fError = TRUE], "InternalInvalidState"))

\* readMeasurement going on to fetch whatever queryReady returned
readMeasurement_unchecked(c, t, io) ==
    Bind(queryReady(c, t, io), LAMBDA q :
    Bind(writeCommand(q, Command.ReadMeasurement, io), LAMBDA w :
    IF ~w.ret THEN Return(w, FALSE) ELSE
    Bind(readResponse(
            [w EXCEPT
                !.d.m_state = "Triggered",
                !.d.m_tReady =
                    U32Add(t, U32(w.d.m_ProductInfo.MeasurementInterval
                                  * 1000))],
            18, io), LAMBDA r :
        IF r.ret
        THEN [r EXCEPT !.d.m_Measurement =
                    Measurement(getFloat32BE(SubSeq(r.buf, 1, 6)),
                                getFloat32BE(SubSeq(r.buf, 7, 12)),
                                getFloat32BE(SubSeq(r.buf, 13, 18)))]
        ELSE r)))

\* readMeasurement storing the response before its CRC check
readMeasurement_noCrc(c, t, io) ==
    Bind(queryReady(c, t, io), LAMBDA q :
    IF ~q.ret THEN Return(q, FALSE) ELSE
    Bind(writeCommand(q, Command.ReadMeasurement, io), LAMBDA w :
    IF ~w.ret THEN Return(w, FALSE) ELSE
    Bind(readResponse(
            [w EXCEPT
                !.d.m_state = "Triggered",
                !.d.m_tReady =
                    U32Add(t, U32(w.d.m_ProductInfo.MeasurementInterval
                                  * 1000))],
            18, io), LAMBDA r :
        IF Len(r.buf) = 18
        THEN [r EXCEPT !.d.m_Measurement =
                    Measurement(getFloat32BE(SubSeq(r.buf, 1, 6)),
                                getFloat32BE(SubSeq(r.buf, 7, 12)),
                                getFloat32BE(SubSeq(r.buf, 13, 18)))]
        ELSE r)))

readMeasurement(c, t, io) ==
    Bind(queryReady(c, t, io), LAMBDA q :
    IF ~q.ret THEN Return(q, FALSE) ELSE
    Bind(writeCommand(q, Command.ReadMeasurement, io), LAMBDA w :
    IF ~w.ret THEN Return(w, FALSE) ELSE
    Bind(readResponse(
            [w EXCEPT
                !.d.m_state = "Triggered",
                !.d.m_tReady =
                    U32Add(t, U32(w.d.m_ProductInfo.MeasurementInterval
                                  * 1000))],
            18, io), LAMBDA r :
        IF r.ret
        THEN [r EXCEPT !.d.m_Measurement =
                    Measurement(getFloat32BE(SubSeq(r.buf, 1, 6)),
                                getFloat32BE(SubSeq(r.buf, 7, 12)),
                                getFloat32BE(SubSeq(r.buf, 13, 18)))]
        ELSE r)))

(***************************************************************************)
(* The cMeasurementLoop object of the scd30_lorawan sketch, which owns the *)
(* cSCD30 object (m_Scd).  Its class declaration (cMeasurementLoop.h) and  *)
(* the FSM engine (McciCatena::cFSM) are not part of the sources at hand:  *)
(* the fields, setTimer, timedOut, txComplete and the engine follow their  *)
(* use in cMeasurementLoop.cpp.  state and fEntry are the engine's current *)
(* state and entry flag; evaluating says that the engine owes a call of    *)
(* fsmDispatch (an eval() is in progress or was asked for during one).     *)
(* txInFlight is not a field: it says that the transport accepted a send   *)
(* and has not yet called back.                                            *)
(***************************************************************************)
LoopStates ==
    {"stInitial", "stInactive", "stSleeping", "stWake", "stMeasure",
     "stSleepSensor", "stTransmit", "stFinal"}

LoopObject ==
    [state |-> "stInitial", fEntry |-> TRUE, evaluating |-> TRUE,
     m_rqActive |-> FALSE, m_rqInactive |-> FALSE, m_active |-> FALSE,
     m_fTimerActive |-> FALSE, m_fTimerEvent |-> FALSE,
     m_timer_start |-> U32(0), m_timer_delay |-> U32(0),
     m_measurement_valid |-> FALSE, m_fSCD |-> TRUE,
     m_txpending |-> FALSE, m_txcomplete |-> FALSE, m_txerr |-> FALSE,
     m_fPrintedSleeping |-> FALSE,
     txInFlight |-> FALSE]

\* a call of fsmDispatch in progress: the object l, its m_Scd d, millis() t,
\* the calls made to the driver, the sleep policy and the transport so far,
\* whether eval() was called meanwhile, whether the processor slept, and
\* the state returned
Dispatch(l, d, t) ==
    [l |-> l, d |-> d, t |-> t, calls |-> <<>>, reeval |-> FALSE,
     slept |-> FALSE, newState |-> "stNoChange"]

NewState(x, s) == [x EXCEPT !.newState = s]

setTimer(x, ms) ==
    [x EXCEPT !.l.m_timer_start = x.t, !.l.m_timer_delay = U32(ms),
              !.l.m_fTimerActive = TRUE, !.l.m_fTimerEvent = FALSE]

\* timedOut() returns m_fTimerEvent and clears it
timedOut(x) == [x EXCEPT !.l.m_fTimerEvent = FALSE]

txComplete(l) == l.m_txcomplete

\* checkDeepSleep testing the test-mode flag before the 2 s floor
checkDeepSleep_testFirst(x, flags) ==
    LET sleepInterval == U32Div1000(getMsToNextMeasurement(x.d, x.t))
    IN  IF flags.fDeepSleepTest THEN TRUE
        ELSE IF sleepInterval < 2 THEN FALSE
        ELSE IF flags.dtr THEN FALSE
        ELSE IF flags.fDisableDeepSleep THEN FALSE
        ELSE IF flags.fUnattended THEN TRUE
        ELSE FALSE

\* flags is the operating-flags word and the state of Serial.dtr()
checkDeepSleep(x, flags) ==
    LET sleepInterval == U32Div1000(getMsToNextMeasurement(x.d, x.t))
    IN  IF sleepInterval < 2 THEN FALSE
        ELSE IF flags.fDeepSleepTest THEN TRUE
        ELSE IF flags.dtr THEN FALSE
        ELSE IF flags.fDisableDeepSleep THEN FALSE
        ELSE IF flags.fUnattended THEN TRUE
        ELSE FALSE

\* the two waits of doSleepAlert poll the sketch's objects, this one among
\* them: its poll() calls eval(), which the engine notes for later
doSleepAlert(x, fDeepSleep, flags) ==
    LET x1 == [x EXCEPT !.l.m_fPrintedSleeping = TRUE]
        deepSleepDelay == IF flags.fDeepSleepTest THEN 10 ELSE 30
    IN  IF fDeepSleep
        THEN [x1 EXCEPT !.t = U32Add(@, U32(deepSleepDelay * 1000 + 100)),
                        !.reeval = TRUE]
        ELSE x1

deepSleepPrepare(x) ==
    [x EXCEPT !.d = end(Call(x.d)).d, !.calls = Append(@, "end")]

deepSleepRecovery(x, io) ==
    Bind(begin(Call(x.d), x.t, io), LAMBDA b :
        [x EXCEPT !.d = b.d, !.l.m_fSCD = b.ret,
                  !.calls = Append(@, "begin")])

doDeepSleep(x, io) ==
    LET sleepInterval == U32Div1000(getMsToNextMeasurement(x.d, x.t))
        p == deepSleepPrepare(x)
        z == [p EXCEPT !.t = U32Add(@, U32(sleepInterval * 1000)),
                       !.slept = TRUE]
        r == deepSleepRecovery(z, io)
    IN  IF sleepInterval = 0 THEN x
        ELSE [r EXCEPT !.reeval = TRUE]

sleep(x, in) ==
    LET x0 == [x EXCEPT !.calls = Append(@, "sleep")]
        fDeepSleep == checkDeepSleep(x0, in.flags)
        x1 == IF ~x0.l.m_fPrintedSleeping
              THEN doSleepAlert(x0, fDeepSleep, in.flags)
              ELSE x0
    IN  IF fDeepSleep THEN doDeepSleep(x1, in.ioBegin) ELSE x1

(***************************************************************************)
(* cMeasurementLoop::fillTxBuffer.  The buffer is the sequence of the puts *)
(* made into it, each with the field it carries and the value handed to    *)
(* the encoder of the Catena library; the second put is the flags byte,    *)
(* overwritten at the end.  The bits of Flags are declared in              *)
(* cMeasurementLoop.h.                                                     *)
(***************************************************************************)
Flags == [Vbat |-> 1, Boot |-> 2, TH |-> 4, CO2ppm |-> 8]

RECURSIVE OrN(_, _, _)
OrN(a, b, n) ==
    IF n = 0 THEN 0
    ELSE (IF a % 2 = 1 \/ b % 2 = 1 THEN 1 ELSE 0)
            + 2 * OrN(a \div 2, b \div 2, n - 1)

\* flag |= bit
Or8(a, b) == OrN(a, b, 8)

Put(put, field, v) == [put |-> put, field |-> field, v |-> v]

\* f != 0.0f for the bits f of a float: +0.0 and -0.0 are both equal to 0.0
FloatNonZero(f) == ~(f[2] = 0 /\ f[1] % 32768 = 0)

\* a build in progress: the buffer and the local flag
TxBuild(b, flag) == [b |-> b, flag |-> flag]

\* fillTxBuffer adding the CO2 field whatever its value
fillTxBuffer_co2Always(l, d, vbat, boot) ==
    Bind(TxBuild(<<Put("put", "kMessageFormat", U32(0)),
                   Put("put", "flags", U32(0)),
                   Put("putV", "Vbat", vbat)>>, Flags.Vbat), LAMBDA s1 :
    Bind(IF boot.ok
         THEN TxBuild(Append(s1.b, Put("putBootCountLsb", "Boot", boot.count)),
                      Or8(s1.flag, Flags.Boot))
         ELSE s1, LAMBDA s2 :
    Bind(IF l.m_fSCD /\ l.m_measurement_valid
         THEN TxBuild(s2.b \o <<Put("put2", "Temperature",
                                    d.m_Measurement.Temperature),
                                Put("put2", "RelativeHumidity",
                                    d.m_Measurement.RelativeHumidity),
                                Put("put2", "CO2ppm",
                                    d.m_Measurement.CO2ppm)>>,
                      Or8(Or8(s2.flag, Flags.TH), Flags.CO2ppm))
         ELSE s2, LAMBDA s3 :
        [s3.b EXCEPT ![2].v = U32(s3.flag)])))

\* fillTxBuffer leaving the flags byte as it was reserved
fillTxBuffer_noPatch(l, d, vbat, boot) ==
    Bind(TxBuild(<<Put("put", "kMessageFormat", U32(0)),
                   Put("put", "flags", U32(0)),
                   Put("putV", "Vbat", vbat)>>, Flags.Vbat), LAMBDA s1 :
    Bind(IF boot.ok
         THEN TxBuild(Append(s1.b, Put("putBootCountLsb", "Boot", boot.count)),
                      Or8(s1.flag, Flags.Boot))
         ELSE s1, LAMBDA s2 :
    Bind(IF l.m_fSCD /\ l.m_measurement_valid
         THEN Bind(TxBuild(s2.b \o <<Put("put2", "Temperature",
                                         d.m_Measurement.Temperature),
                                     Put("put2", "RelativeHumidity",
                                         d.m_Measurement.RelativeHumidity)>>,
                           Or8(s2.flag, Flags.TH)), LAMBDA th :
              IF FloatNonZero(d.m_Measurement.CO2ppm)
              THEN TxBuild(Append(th.b, Put("put2", "CO2ppm",
                                            d.m_Measurement.CO2ppm)),
                           Or8(th.flag, Flags.CO2ppm))
              ELSE th)
         ELSE s2, LAMBDA s3 :
        s3.b)))

\* vbat is what gCatena.ReadVbat() returns, boot what getBootCount() returns
fillTxBuffer(l, d, vbat, boot) ==
    Bind(TxBuild(<<Put("put", "kMessageFormat", U32(0)),
                   Put("put", "flags", U32(0)),
                   Put("putV", "Vbat", vbat)>>, Flags.Vbat), LAMBDA s1 :
    Bind(IF boot.ok
         THEN TxBuild(Append(s1.b, Put("putBootCountLsb", "Boot", boot.count)),
                      Or8(s1.flag, Flags.Boot))
         ELSE s1, LAMBDA s2 :
    Bind(IF l.m_fSCD /\ l.m_measurement_valid
         THEN Bind(TxBuild(s2.b \o <<Put("put2", "Temperature",
                                         d.m_Measurement.Temperature),
                                     Put("put2", "RelativeHumidity",
                                         d.m_Measurement.RelativeHumidity)>>,
                           Or8(s2.flag, Flags.TH)), LAMBDA th :
              IF FloatNonZero(d.m_Measurement.CO2ppm)
              THEN TxBuild(Append(th.b, Put("put2", "CO2ppm",
                                            d.m_Measurement.CO2ppm)),
                           Or8(th.flag, Flags.CO2ppm))
              ELSE th)
         ELSE s2, LAMBDA s3 :
        [s3.b EXCEPT ![2].v = U32(s3.flag)])))

\* startTransmission recording nothing when SendBuffer() refuses the message
startTransmission_noSynth(x, sent) ==
    LET x1 == [x EXCEPT !.l.m_txpending = TRUE,
                        !.l.m_txcomplete = FALSE,
                        !.l.m_txerr = FALSE,
                        !.calls = Append(@, "SendBuffer")]
    IN  IF ~sent THEN x1
        ELSE [x1 EXCEPT !.l.txInFlight = TRUE]

\* startTransmission of the buffer built by fillTxBuffer; sent says whether
\* gLoRaWAN.SendBuffer() accepted the message
startTransmission(x, sent) ==
    LET x1 == [x EXCEPT !.l.m_txpending = TRUE,
                        !.l.m_txcomplete = FALSE,
                        !.l.m_txerr = FALSE,
                        !.calls = Append(@, "SendBuffer")]
    IN  IF ~sent
        THEN [x1 EXCEPT !.l.m_txcomplete = TRUE, !.l.m_txerr = TRUE,
                        !.reeval = TRUE]
        ELSE [x1 EXCEPT !.l.txInFlight = TRUE]

\* stInactive clearing only the request it has tested
stInactive_oneFlag(x, fEntry, in) ==
    IF x.l.m_rqActive
    THEN NewState([x EXCEPT !.l.m_rqActive = FALSE,
                            !.l.m_active = TRUE], "stWake")
    ELSE x

stInactive(x, fEntry, in) ==
    IF x.l.m_rqActive
    THEN NewState([x EXCEPT !.l.m_rqActive = FALSE, !.l.m_rqInactive = FALSE,
                            !.l.m_active = TRUE], "stWake")
    ELSE x

\* stSleeping without the test of the deactivate request
stSleeping_noDeactivate(x, fEntry, in) ==
    Bind(queryReady(Call(x.d), x.t, in.io), LAMBDA q :
    Bind([x EXCEPT !.d = q.d, !.calls = Append(@, "queryReady")], LAMBDA x1 :
    Bind(getMsToNextMeasurement(x1.d, x1.t), LAMBDA msToNext :
        IF q.ret THEN NewState(x1, "stMeasure")
        ELSE IF q.fError THEN NewState(x1, "stInactive")
        ELSE IF U32Less(msToNext, 20) THEN NewState(x1, "stWake")
        ELSE IF U32Greater(msToNext, 500) THEN sleep(x1, in)
        ELSE x1)))

\* stSleeping testing the sensor before the deactivate request
stSleeping_sensorFirst(x, fEntry, in) ==
    Bind(queryReady(Call(x.d), x.t, in.io), LAMBDA q :
    Bind([x EXCEPT !.d = q.d, !.calls = Append(@, "queryReady")], LAMBDA x1 :
    Bind(getMsToNextMeasurement(x1.d, x1.t), LAMBDA msToNext :
        IF q.ret THEN NewState(x1, "stMeasure")
        ELSE IF x.l.m_rqInactive
        THEN NewState([x1 EXCEPT !.l.m_rqActive = FALSE,
                                 !.l.m_rqInactive = FALSE,
                                 !.l.m_active = FALSE], "stInactive")
        ELSE IF q.fError THEN NewState(x1, "stInactive")
        ELSE IF U32Less(msToNext, 20) THEN NewState(x1, "stWake")
        ELSE IF U32Greater(msToNext, 500) THEN sleep(x1, in)
        ELSE x1)))

\* stSleeping waking when less than 500 ms remain
stSleeping_wakeEarly(x, fEntry, in) ==
    IF x.l.m_rqInactive
    THEN NewState([x EXCEPT !.l.m_rqActive = FALSE,
                            !.l.m_rqInactive = FALSE,
                            !.l.m_active = FALSE], "stInactive")
    ELSE
    Bind(queryReady(Call(x.d), x.t, in.io), LAMBDA q :
    Bind([x EXCEPT !.d = q.d, !.calls = Append(@, "queryReady")], LAMBDA x1 :
    Bind(getMsToNextMeasurement(x1.d, x1.t), LAMBDA msToNext :
        IF q.ret THEN NewState(x1, "stMeasure")
        ELSE IF q.fError THEN NewState(x1, "stInactive")
        ELSE IF U32Less(msToNext, 500) THEN NewState(x1, "stWake")
        ELSE IF U32Greater(msToNext, 500) THEN sleep(x1, in)
        ELSE x1)))

stSleeping(x, fEntry, in) ==
    IF x.l.m_rqInactive
    THEN NewState([x EXCEPT !.l.m_rqActive = FALSE,
                            !.l.m_rqInactive = FALSE,
                            !.l.m_active = FALSE], "stInactive")
    ELSE
    Bind(queryReady(Call(x.d), x.t, in.io), LAMBDA q :
    Bind([x EXCEPT !.d = q.d, !.calls = Append(@, "queryReady")], LAMBDA x1 :
    Bind(getMsToNextMeasurement(x1.d, x1.t), LAMBDA msToNext :
        IF q.ret THEN NewState(x1, "stMeasure")
        ELSE IF q.fError THEN NewState(x1, "stInactive")
        ELSE IF U32Less(msToNext, 20) THEN NewState(x1, "stWake")
        ELSE IF U32Greater(msToNext, 500) THEN sleep(x1, in)
        ELSE x1)))

stWake(x, fEntry, in) ==
    LET x1 == IF fEntry THEN setTimer(x, 20) ELSE x
    IN  IF x1.l.m_fTimerEvent THEN NewState(timedOut(x1), "stMeasure")
        ELSE timedOut(x1)

\* stMeasure without the clearing of m_measurement_valid on entry
stMeasure_keepValid(x, fEntry, in) ==
    Bind(queryReady(Call(x.d), x.t, in.io), LAMBDA q :
    Bind([x EXCEPT !.d = q.d, !.calls = Append(@, "queryReady")], LAMBDA x2 :
        IF q.ret
        THEN Bind(readMeasurement(Call(x2.d), x2.t, in.ioRead), LAMBDA r :
                NewState([x2 EXCEPT !.d = r.d,
                                    !.l.m_measurement_valid = r.ret,
                                    !.calls = Append(@, "readMeasurement")],
                         "stSleepSensor"))
        ELSE IF q.fError THEN NewState(x2, "stSleepSensor")
        ELSE x2))

stMeasure(x, fEntry, in) ==
    Bind(IF fEntry THEN [x EXCEPT !.l.m_measurement_valid = FALSE] ELSE x,
         LAMBDA x1 :
    Bind(queryReady(Call(x1.d), x1.t, in.io), LAMBDA q :
    Bind([x1 EXCEPT !.d = q.d, !.calls = Append(@, "queryReady")], LAMBDA x2 :
        IF q.ret
        THEN Bind(readMeasurement(Call(x2.d), x2.t, in.ioRead), LAMBDA r :
                NewState([x2 EXCEPT !.d = r.d,
                                    !.l.m_measurement_valid = r.ret,
                                    !.calls = Append(@, "readMeasurement")],
                         "stSleepSensor"))
        ELSE IF q.fError THEN NewState(x2, "stSleepSensor")
        ELSE x2)))

stSleepSensor(x, fEntry, in) == NewState(x, "stTransmit")

stTransmit(x, fEntry, in) ==
    LET x1 == IF fEntry THEN startTransmission(x, in.sent) ELSE x
    IN  IF txComplete(x1.l) THEN NewState(x1, "stSleeping") ELSE x1

fsmDispatch(x, currentState, fEntry, in) ==
    CASE currentState = "stInitial"     -> NewState(x, "stInactive")
      [] currentState = "stInactive"    -> stInactive(x, fEntry, in)
      [] currentState = "stSleeping"    -> stSleeping(x, fEntry, in)
      [] currentState = "stWake"        -> stWake(x, fEntry, in)
      [] currentState = "stMeasure"     -> stMeasure(x, fEntry, in)
      [] currentState = "stSleepSensor" -> stSleepSensor(x, fEntry, in)
      [] currentState = "stTransmit"    -> stTransmit(x, fEntry, in)
      [] OTHER                          -> x

\* requestActive() up to its call of eval()
requestActive(l, fEnable) ==
    IF fEnable THEN [l EXCEPT !.m_rqActive = TRUE]
    ELSE [l EXCEPT !.m_rqInactive = TRUE]

\* sendBufferDoneCb() up to its call of eval()
sendBufferDone(l, fSuccess) ==
    [l EXCEPT !.m_txpending = FALSE, !.m_txcomplete = TRUE,
              !.m_txerr = ~fSuccess, !.txInFlight = FALSE]

\* poll(): the object after it, with evaluating set when it calls eval()
poll(l, t) ==
    IF ~l.m_active /\ ~l.m_rqActive THEN l
    ELSE IF l.m_fTimerActive
    THEN IF ~U32Lt(U32Sub(t, l.m_timer_start), l.m_timer_delay)
         THEN [l EXCEPT !.m_fTimerActive = FALSE, !.m_fTimerEvent = TRUE,
                        !.evaluating = TRUE]
         ELSE IF ~l.m_active THEN [l EXCEPT !.evaluating = TRUE]
         ELSE l
    ELSE [l EXCEPT !.evaluating = TRUE]

(***************************************************************************)
(* The driver used directly: any sequence of public calls, with any bus    *)
(* behaviour, at any times.                                                *)
(***************************************************************************)
\* values the device may return for the measurement interval
IntervalVals == {2, 1801}

\* values the device may return for the data-ready flag
FlagVals == {0, 1}

\* arguments of setMeasurementInterval
IntervalArgs == {1, 2, 65535}

\* arguments of startContinuousMeasurement(pressure_mBar)
PressureArgs == {699, 700, 1401}

\* clock steps between calls, in ms
TickSteps == {U32(1000), <<32768, 0>>}

\* the clock at construction: 1000 ms before it wraps
InitNow == {U32Sub(U32(0), U32(1000))}

\* indeterminate initial values of the fields without an initialiser
UninitTReady == {U32(0), <<32768, 500>>}
UninitError == {"Success", "SensorUpdateFailed"}
UninitInfo == ProductInfo(0, 0, 0, 0, 0, 0)
UninitMeasurement == Measurement(U32(0), U32(0), U32(0))

NoOp ==
    [name |-> "none", arg |-> 0, ret |-> TRUE, fError |-> FALSE,
     log |-> <<>>, errSet |-> FALSE]

Init ==
    /\ now \in InitNow
    /\ ticks = 0
    /\ scd \in [m_state : {"Uninitialized"},
                m_tReady : UninitTReady,
                m_lastError : UninitError,
                m_ProductInfo : {UninitInfo},
                m_Measurement : {UninitMeasurement}]
    /\ lastOp = NoOp
    /\ loop = LoopObject

\* a public call returned r
Called(name, arg, r) ==
    /\ scd' = r.d
    /\ lastOp' = [name |-> name, arg |-> arg, ret |-> r.ret,
                  fError |-> r.fError, log |-> r.log, errSet |-> r.errSet]
    /\ UNCHANGED <<now, ticks, loop>>

\* the bus outcomes of each call; a value that is read but has no effect on
\* the call's result is fixed
BeginFailIo == IoFail(6, {2}, NoMeas)
BeginIo == IoOk(IntervalVals, NoMeas) \cup BeginFailIo
SetMeasurementIntervalIo == IoOk(IntervalVals, NoMeas) \cup IoFail(2, {2}, NoMeas)
StartIo == IoOk({0}, NoMeas) \cup IoFail(1, {0}, NoMeas)
QueryReadyIo == IoOk(FlagVals, NoMeas) \cup IoFail(2, {0}, NoMeas)
ReadMeasurementIo == IoOk(FlagVals, MeasVals) \cup IoFail(2, FlagVals, NoMeas)

Begin ==
    \E io \in BeginIo :
        Called("begin", 0, begin(Call(scd), now, io))

End == Called("end", 0, end(Call(scd)))

SetMeasurementInterval ==
    \E interval \in IntervalArgs, io \in SetMeasurementIntervalIo :
        Called("setMeasurementInterval", interval,
               setMeasurementInterval(Call(scd), interval, io))

StartContinuousMeasurement ==
    \E p \in PressureArgs, io \in StartIo :
        Called("startContinuousMeasurement", p,
               startContinuousMeasurementPressure(Call(scd), now, p, io))

QueryReady ==
    \E io \in QueryReadyIo :
        Called("queryReady", 0, queryReady(Call(scd), now, io))

ReadMeasurement ==
    \E io \in ReadMeasurementIo :
        Called("readMeasurement", 0, readMeasurement(Call(scd), now, io))

Tick ==
    /\ ticks < MaxTicks
    /\ \E d \in TickSteps : now' = U32Add(now, d)
    /\ ticks' = ticks + 1
    /\ UNCHANGED <<scd, lastOp, loop>>

Next ==
    \/ Begin
    \/ End
    \/ SetMeasurementInterval
    \/ StartContinuousMeasurement
    \/ QueryReady
    \/ ReadMeasurement
    \/ Tick

Spec == Init /\ [][Next]_vars

TypeOK ==
    /\ IsU32(now)
    /\ scd.m_state \in StateSet
    /\ scd.m_lastError \in Errors
    /\ IsU32(scd.m_tReady)

(***************************************************************************)
(* Properties of begin().                                                  *)
(***************************************************************************)
RunningStates == {"Initial", "Idle", "Triggered", "Ready"}

\* the state begin() gives a driver that was in state s
RestartState(s) == IF s = "End" THEN "Triggered" ELSE "Initial"

\* C8 as stated: begin() on a driver that is not running makes its
\* product-info reads in state Initial if the driver was in End and in state
\* Triggered otherwise.
C8_AsStated ==
    \A io \in BeginIo :
        scd.m_state \notin RunningStates =>
            LET r == begin(Call(scd), now, io)
                s == IF scd.m_state = "End" THEN "Initial" ELSE "Triggered"
            IN  /\ r.log # <<>>
                /\ \A i \in DOMAIN r.log : r.log[i].st = s

\* C8 amended: begin() on a driver that is not running makes every one of
\* its product-info bus transactions in state Triggered if the driver was in
\* End and in state Initial otherwise, and when it succeeds that is the state
\* it leaves.
C8_RestartState ==
    \A io \in BeginIo :
        scd.m_state \notin RunningStates =>
            LET r == begin(Call(scd), now, io)
            IN  /\ r.log # <<>>
                /\ \A i \in DOMAIN r.log :
                        r.log[i].st = RestartState(scd.m_state)
                /\ r.ret => r.d.m_state = RestartState(scd.m_state)

\* a begin() that restarted a stopped driver: all six reads made in Triggered
C8_Witness ==
    /\ lastOp.name = "begin" /\ lastOp.ret
    /\ NumWrites(lastOp.log) = 6
    /\ lastOp.log[1].st = "Triggered"
    /\ scd.m_state = "Triggered"

\* C9: begin() on a running driver (Initial, Idle, Triggered or Ready)
\* returns true, changes no field of the driver and makes no bus transaction;
\* and a second begin() right after a successful one changes nothing more.
C9_Idempotent ==
    \A io \in BeginIo :
        LET r == begin(Call(scd), now, io)
        IN  /\ scd.m_state \in RunningStates =>
                    r.ret /\ r.d = scd /\ r.log = <<>> /\ ~r.errSet
            /\ r.ret =>
                    \A io2 \in BeginIo :
                        LET r2 == begin(Call(r.d), now, io2)
                        IN  r2.ret /\ r2.d = r.d /\ r2.log = <<>>

\* a begin() made on a driver that had data ready
C9_Witness ==
    /\ lastOp.name = "begin" /\ lastOp.ret /\ lastOp.log = <<>>
    /\ scd.m_state = "Ready"

\* C10: when one of the six product-info reads of begin() fails, the reads
\* after it are not made, begin() returns false, no field of the cached
\* ProductInfo changes and the driver is left Uninitialized, also when it was
\* in End.
C10_FailFast ==
    \A io \in BeginFailIo :
        scd.m_state \notin RunningStates =>
            LET r == begin(Call(scd), now, io)
            IN  /\ ~r.ret
                /\ NumWrites(r.log) = io.failAt
                /\ Len(r.log) <= 2 * io.failAt
                /\ r.d.m_ProductInfo = scd.m_ProductInfo
                /\ r.d.m_state = "Uninitialized"

\* a restart from End that failed at its fourth read, after an earlier
\* begin() had cached the product info
C10_Witness ==
    /\ lastOp.name = "begin" /\ ~lastOp.ret
    /\ NumWrites(lastOp.log) = 4
    /\ lastOp.log[1].st = "Triggered"
    /\ scd.m_state = "Uninitialized"
    /\ scd.m_ProductInfo.FirmwareVersion = 834

(***************************************************************************)
(* Properties of queryReady() and readMeasurement().                       *)
(***************************************************************************)
\* (std::int32_t)(millis() - m_tReady) < 0
BeforeReady == I32Neg(U32Sub(now, scd.m_tReady))

\* the commands written in a call, in order
Commands(log) ==
    LET W == SelectSeq(log, LAMBDA e : e.t = "w")
    IN  [i \in DOMAIN W |-> W[i].bytes[1] * 256 + W[i].bytes[2]]

\* C1 as stated: in every driver state, a queryReady() made before the
\* ready time returns false with last error Busy and leaves m_state as it
\* was.
C1_AsStated ==
    \A io \in QueryReadyIo :
        BeforeReady =>
            LET r == queryReady(Call(scd), now, io)
            IN  /\ ~r.ret
                /\ r.d.m_lastError = "Busy"
                /\ r.d.m_state = scd.m_state

\* C1 amended: a queryReady() made before the ready time leaves m_state as
\* it was and makes no bus transaction in every driver state; in Initial and
\* Triggered it returns false without a communication error, sets the last
\* error to Busy and changes nothing else; in Uninitialized and End it
\* returns false with a communication error and last error Uninitialized; in
\* Ready it returns true.
C1_BusyBeforeReady ==
    \A io \in QueryReadyIo :
        BeforeReady =>
            LET r == queryReady(Call(scd), now, io)
            IN  /\ r.d.m_state = scd.m_state
                /\ r.log = <<>>
                /\ scd.m_state \in {"Initial", "Triggered"} =>
                        /\ ~r.ret /\ ~r.fError
                        /\ r.d = [scd EXCEPT !.m_lastError = "Busy"]
                /\ scd.m_state \in {"Uninitialized", "End"} =>
                        /\ ~r.ret /\ r.fError
                        /\ r.d = [scd EXCEPT !.m_lastError = "Uninitialized"]
                /\ scd.m_state = "Ready" => r.ret /\ ~r.fError /\ r.d = scd

\* a queryReady() made on a measuring driver before the ready time
C1_Witness ==
    /\ lastOp.name = "queryReady" /\ ~lastOp.ret /\ ~lastOp.fError
    /\ lastOp.log = <<>>
    /\ scd.m_state = "Triggered" /\ scd.m_lastError = "Busy"
    /\ BeforeReady

\* C2 as stated: when its queryReady() returns false, readMeasurement()
\* returns false and leaves m_state, m_tReady and the cached Measurement as
\* they were, with no bus transaction.
C2_AsStated ==
    \A io \in ReadMeasurementIo :
        LET q == queryReady(Call(scd), now, io)
            r == readMeasurement(Call(scd), now, io)
        IN  ~q.ret =>
                /\ ~r.ret
                /\ r.d.m_state = scd.m_state
                /\ r.d.m_tReady = scd.m_tReady
                /\ r.d.m_Measurement = scd.m_Measurement
                /\ r.log = <<>>

\* C2 amended: when its queryReady() returns false, readMeasurement()
\* returns false having done what that queryReady() did and nothing more:
\* the driver and the bus are as queryReady() alone leaves them (it may have
\* polled the data-ready flag, sent the start command, moved Initial to
\* Triggered and rescheduled m_tReady), no ReadMeasurement command is
\* written, and the cached Measurement is unchanged.
C2_NoFetchUnlessReady ==
    \A io \in ReadMeasurementIo :
        LET q == queryReady(Call(scd), now, io)
            r == readMeasurement(Call(scd), now, io)
        IN  ~q.ret =>
                /\ ~r.ret
                /\ r.d = q.d
                /\ r.log = q.log
                /\ \A i \in DOMAIN Commands(r.log) :
                        Commands(r.log)[i] # Command.ReadMeasurement
                /\ r.d.m_Measurement = scd.m_Measurement

\* a readMeasurement() whose queryReady() polled the flag, found no data and
\* put the ready time off by 100 ms
C2_Witness ==
    /\ lastOp.name = "readMeasurement" /\ ~lastOp.ret
    /\ Commands(lastOp.log) = <<Command.GetDataReady>>
    /\ Len(lastOp.log) = 2
    /\ scd.m_lastError = "Busy"
    /\ scd.m_tReady = U32Add(now, U32(100))

(***************************************************************************)
(* Properties of the cached state.                                         *)
(***************************************************************************)
\* C6: whenever the driver is running, the cached measurement interval is
\* between 2 and 1800 seconds.
C6_IntervalInRange ==
    isRunning(scd) =>
        /\ scd.m_ProductInfo.MeasurementInterval >= 2
        /\ scd.m_ProductInfo.MeasurementInterval <= 1800

\* the results of every fallible call that can be made now
Outcomes ==
    UNION {
        { begin(Call(scd), now, io) : io \in BeginIo },
        { queryReady(Call(scd), now, io) : io \in QueryReadyIo },
        { readMeasurement(Call(scd), now, io) : io \in ReadMeasurementIo },
        { setMeasurementInterval(Call(scd), i, io) :
              i \in IntervalArgs, io \in SetMeasurementIntervalIo },
        { startContinuousMeasurementPressure(Call(scd), now, p, io) :
              p \in PressureArgs, io \in StartIo } }

\* C7 as stated: after a fallible call the last error is Success exactly
\* when the call returned true.
C7_AsStated ==
    \A r \in Outcomes : r.ret <=> r.d.m_lastError = "Success"

\* C7 amended: a fallible call that returns false has set the last error
\* during that call, to a code other than Success; a call that returns true
\* does not set it, so that the last error is then what it was before the
\* call, and Success is never stored.
C7_ErrorOnFailure ==
    \A r \in Outcomes :
        /\ ~r.ret => r.errSet /\ r.d.m_lastError # "Success"
        /\ r.ret => ~r.errSet /\ r.d.m_lastError = scd.m_lastError

\* a readMeasurement() that returned true while the last error still named
\* the Busy of an earlier call
C7_Witness ==
    /\ lastOp.name = "readMeasurement" /\ lastOp.ret /\ ~lastOp.errSet
    /\ scd.m_lastError = "Busy"

(***************************************************************************)
(* The scd30_lorawan sketch: the Arduino loop polls the cMeasurementLoop   *)
(* object, the transport calls back, and requests to activate and to       *)
(* deactivate arrive at any time.  The handlers run on one thread: none    *)
(* starts while the FSM engine still owes a call of fsmDispatch.  Time     *)
(* passes between two polls of the Arduino loop, and during the waits and  *)
(* the sleep of the sleep policy.                                          *)
(***************************************************************************)
\* the bus during one driver call made by the sketch: it works, or the
\* first command is not acknowledged
LoopNack ==
    [failAt |-> 1, kind |-> "WriteNack", v |-> 0,
     meas |-> CHOOSE m \in NoMeas : TRUE]

LoopQueryIo == IoOk(FlagVals, NoMeas) \cup {LoopNack}

LoopReadIo == IoOk({1}, NoMeas) \cup {LoopNack}

LoopBeginIo == IoOk({2}, NoMeas) \cup {LoopNack}

\* the operating flags and Serial.dtr(): attended or unattended
OperatingFlags ==
    { [fDeepSleepTest |-> FALSE, dtr |-> FALSE, fDisableDeepSleep |-> FALSE,
       fUnattended |-> FALSE],
      [fDeepSleepTest |-> FALSE, dtr |-> FALSE, fDisableDeepSleep |-> FALSE,
       fUnattended |-> TRUE] }

\* what a call of fsmDispatch in the given state can meet
DispatchInputs(state) ==
    [io      : IF state \in {"stSleeping", "stMeasure"} THEN LoopQueryIo
               ELSE {LoopNack},
     ioRead  : IF state = "stMeasure" THEN LoopReadIo ELSE {LoopNack},
     ioBegin : IF state = "stSleeping" THEN LoopBeginIo ELSE {LoopNack},
     sent    : IF state = "stTransmit" THEN BOOLEAN ELSE {FALSE},
     flags   : IF state = "stSleeping" THEN OperatingFlags
               ELSE {CHOOSE f \in OperatingFlags : ~f.fUnattended}]

\* the time between two polls when the clock has moved: 2^31 ms
LoopStep == <<32768, 0>>

\* the objects have static storage: fields without an initialiser are zero
ZeroScd ==
    [m_state |-> "Uninitialized", m_tReady |-> U32(0),
     m_lastError |-> "Success", m_ProductInfo |-> UninitInfo,
     m_Measurement |-> UninitMeasurement]

\* after setup(): the driver was started, with or without success, and
\* cMeasurementLoop::begin() has initialised the FSM
InitLoop ==
    /\ now \in InitNow
    /\ ticks = 0
    /\ scd \in { begin(Call(ZeroScd), now, io).d : io \in LoopBeginIo }
    /\ lastOp = NoOp
    /\ loop = LoopObject

\* history: the last call of fsmDispatch, the state it was made in and the
\* calls it made
Dispatched(currentState, calls) ==
    lastOp' = [name |-> "fsmDispatch", arg |-> currentState, ret |-> TRUE,
               fError |-> FALSE, log |-> calls, errSet |-> FALSE]

\* one call of fsmDispatch by the FSM engine
FsmDispatch ==
    /\ loop.evaluating
    /\ \E x \in { fsmDispatch(Dispatch(loop, scd, now), loop.state,
                                loop.fEntry, in) :
                        in \in DispatchInputs(loop.state) } :
            /\ x.slept => ticks < MaxSleeps
            /\ loop' = IF x.newState # "stNoChange"
                       THEN [x.l EXCEPT !.state = x.newState,
                                        !.fEntry = TRUE,
                                        !.evaluating = TRUE]
                       ELSE [x.l EXCEPT !.fEntry = FALSE,
                                        !.evaluating = x.reeval]
            /\ scd' = x.d
            /\ now' = x.t
            /\ ticks' = IF x.slept THEN ticks + 1 ELSE ticks
            /\ Dispatched(loop.state, x.calls)

\* poll() by an iteration of the Arduino loop within the same millisecond
Poll ==
    /\ ~loop.evaluating
    /\ loop' = poll(loop, now)
    /\ UNCHANGED <<now, ticks, scd, lastOp>>

\* poll() by an iteration of the Arduino loop at a later time
PollLater ==
    /\ ~loop.evaluating
    /\ now' = U32Add(now, LoopStep)
    /\ loop' = poll(loop, now')
    /\ UNCHANGED <<ticks, scd, lastOp>>

RequestActive ==
    /\ ~loop.evaluating
    /\ \E fEnable \in BOOLEAN :
        loop' = [requestActive(loop, fEnable) EXCEPT !.evaluating = TRUE]
    /\ UNCHANGED <<now, ticks, scd, lastOp>>

SendBufferDoneCb ==
    /\ ~loop.evaluating
    /\ loop.txInFlight
    /\ \E fSuccess \in BOOLEAN :
        loop' = [sendBufferDone(loop, fSuccess) EXCEPT !.evaluating = TRUE]
    /\ UNCHANGED <<now, ticks, scd, lastOp>>

NextLoop ==
    \/ FsmDispatch
    \/ Poll
    \/ PollLater
    \/ RequestActive
    \/ SendBufferDoneCb

SpecLoop == InitLoop /\ [][NextLoop]_vars

\* loop() of the sketch runs again and again, so that poll() is called at
\* later and later times however often requests and callbacks come in
\* between, and every eval() of the engine returns to its caller
FairSpecLoop ==
    /\ SpecLoop
    /\ SF_vars(PollLater)
    /\ []<>(~loop.evaluating)

TypeOKLoop ==
    /\ IsU32(now)
    /\ loop.state \in LoopStates
    /\ scd.m_state \in StateSet

(***************************************************************************)
(* Properties of the sketch.                                               *)
(***************************************************************************)
DeactivateRequested == loop.m_rqInactive /\ loop.m_active

C4_DeactivateFromSleeping ==
    (loop.state = "stSleeping" /\ loop.m_rqInactive) =>
        /\ loop.evaluating
        /\ \A in \in DispatchInputs("stSleeping"), ta, te \in BOOLEAN :
            LET l == [loop EXCEPT !.m_fTimerActive = ta, !.m_fTimerEvent = te]
                x == fsmDispatch(Dispatch(l, scd, now), l.state, l.fEntry, in)
            IN  /\ x.newState = "stInactive"
                /\ x.l = [l EXCEPT !.m_rqActive = FALSE,
                                    !.m_rqInactive = FALSE,
                                    !.m_active = FALSE]
                /\ x.d = scd /\ x.t = now
                /\ x.calls = <<>>

\* the orchestrator stopped on request while the driver had data ready
C4_Witness ==
    /\ lastOp.name = "fsmDispatch" /\ lastOp.arg = "stSleeping"
    /\ lastOp.log = <<>>
    /\ loop.state = "stInactive" /\ ~loop.m_active
    /\ scd.m_state = "Ready"

\* C5: the orchestrator is never in stInactive, still marked active, after
\* a deep sleep whose restart of the driver failed.
C5_NoHaltAfterFailedRestart ==
    ~(loop.state = "stInactive" /\ loop.m_active /\ ~loop.m_fSCD)

(***************************************************************************)
(* Properties of end().                                                    *)
(***************************************************************************)
\* C11: end() makes no bus transaction; it moves a running driver to End and
\* changes nothing else, and it changes nothing of a driver that is not
\* running.  On a driver that is not running, as after end(), every
\* queryReady() and readMeasurement() returns false with last error
\* Uninitialized and without a bus transaction, queryReady() reporting a
\* communication error; and the driver comes to run again only by a begin()
\* that returns true.
C11_StopEnds ==
    /\ [](LET e == end(Call(scd))
          IN  /\ e.log = <<>> /\ ~e.errSet
              /\ isRunning(scd) => e.d = [scd EXCEPT !.m_state = "End"]
              /\ ~isRunning(scd) => e.d = scd
              /\ ~isRunning(e.d)
              /\ \A io \in ReadMeasurementIo :
                    LET q == queryReady(Call(e.d), now, io)
                        r == readMeasurement(Call(e.d), now, io)
                    IN  /\ ~q.ret /\ q.fError /\ q.log = <<>>
                        /\ q.d = [e.d EXCEPT !.m_lastError = "Uninitialized"]
                        /\ ~r.ret /\ r.log = <<>>
                        /\ r.d = [e.d EXCEPT !.m_lastError = "Uninitialized"])
    /\ [][(~isRunning(scd) /\ isRunning(scd')) =>
                (lastOp'.name = "begin" /\ lastOp'.ret)]_vars

\* a queryReady() refused after end() had stopped a driver that had data
\* ready
C11_Witness ==
    /\ scd.m_state = "End"
    /\ scd.m_ProductInfo.FirmwareVersion = 834
    /\ lastOp.name = "queryReady" /\ ~lastOp.ret /\ lastOp.fError
    /\ lastOp.log = <<>>
    /\ scd.m_lastError = "Uninitialized"

(***************************************************************************)
(* Properties of the state Ready.                                          *)
(***************************************************************************)
\* the clock now and after each of the steps it can make
ClockValues == {now} \cup { U32Add(now, d) : d \in TickSteps }

\* in Ready a queryReady() returns true without a communication error,
\* without a bus transaction and without changing the driver, at any time
ReadyAnswersTrue ==
    scd.m_state = "Ready" =>
        \A io \in QueryReadyIo, t \in ClockValues :
            LET q == queryReady(Call(scd), t, io)
            IN  q.ret /\ ~q.fError /\ q.log = <<>> /\ q.d = scd

\* C12 as stated: once the driver is in Ready, every queryReady() made
\* before the next readMeasurement() returns true with no error and no bus
\* transaction and keeps the state Ready, whatever the clock: the driver
\* stays in Ready through every step that is not a readMeasurement().
C12_AsStated ==
    /\ []ReadyAnswersTrue
    /\ [][(scd.m_state = "Ready" /\ lastOp'.name # "readMeasurement")
                => scd'.m_state = "Ready"]_vars

\* C12 amended: in Ready every queryReady() returns true with no error and
\* no bus transaction and keeps the state Ready, whatever the clock; the
\* driver stays in Ready until a readMeasurement() (which leaves it in Ready
\* or moves it to Triggered), an end() (to End) or a
\* startContinuousMeasurement() (to Triggered).
C12_ReadyUntilFetch ==
    /\ []ReadyAnswersTrue
    /\ [][scd.m_state = "Ready" =>
            \/ scd'.m_state = "Ready"
            \/ lastOp'.name = "readMeasurement" /\ scd'.m_state = "Triggered"
            \/ lastOp'.name = "end" /\ scd'.m_state = "End"
            \/ lastOp'.name = "startContinuousMeasurement"
                    /\ scd'.m_state = "Triggered"]_vars

\* a queryReady() answered from the state Ready, without the bus
C12_Witness ==
    /\ lastOp.name = "queryReady" /\ lastOp.ret /\ ~lastOp.fError
    /\ lastOp.log = <<>>
    /\ scd.m_state = "Ready"

(***************************************************************************)
(* Properties of the cached Measurement.                                   *)
(***************************************************************************)
\* the outcomes of a fetch: the device answers with a measurement, and any
\* one of the exchanges may fail
FetchIo == IoOk(FlagVals, MeasVals) \cup IoFail(2, FlagVals, MeasVals)

\* C13: m_Measurement changes only in a readMeasurement() that returns true;
\* that call replaces the three fields together by the values of the one
\* 18-byte response, each group of which carries a correct CRC; a
\* readMeasurement() that returns false (refused, command write failed,
\* response short, CRC wrong) leaves the three fields as they were.
C13_MeasurementAtomic ==
    /\ [](\A io \in FetchIo :
            LET r == readMeasurement(Call(scd), now, io)
            IN  /\ ~r.ret => r.d.m_Measurement = scd.m_Measurement
                /\ r.ret =>
                    /\ r.log[Len(r.log)].t = "r"
                    /\ r.log[Len(r.log)].bytes = <<18>>
                    /\ r.buf = MeasBytes(io.meas)
                    /\ \A i \in {1, 4, 7, 10, 13, 16} :
                            crc(<<r.buf[i], r.buf[i + 1]>>) = r.buf[i + 2]
                    /\ r.d.m_Measurement =
                            Measurement(getFloat32BE(SubSeq(r.buf, 1, 6)),
                                        getFloat32BE(SubSeq(r.buf, 7, 12)),
                                        getFloat32BE(SubSeq(r.buf, 13, 18))))
    /\ [][scd'.m_Measurement # scd.m_Measurement =>
                (lastOp'.name = "readMeasurement" /\ lastOp'.ret)]_vars

\* a fetch has replaced the three fields
C13_Witness ==
    /\ lastOp.name = "readMeasurement" /\ lastOp.ret
    /\ scd.m_Measurement =
            Measurement(<<17358, 16384>>, <<16840, 0>>, <<16968, 0>>)

(***************************************************************************)
(* getMsToNextMeasurement() on the 32-bit clock of millis().  The driver   *)
(* sets m_tReady to millis() plus a wait; afterwards time passes.  The     *)
(* time that has really passed since then is kept beside the clock, as a   *)
(* number that does not wrap: <<hi, lo>> stands for hi * 65536 + lo.       *)
(***************************************************************************)
MaxWaitTicks == 3

WideAdd(a, b) ==
    LET lo == a[2] + b[2]
    IN  <<a[1] + b[1] + (lo \div 65536), lo % 65536>>

WideGeq(a, b) == a[1] > b[1] \/ (a[1] = b[1] /\ a[2] >= b[2])

\* the waits the driver adds to millis(): the retry of a poll, the wait
\* after a set flag, and the measurement interval
WaitVals == {100, 1000, 2000, 1801000}

\* the clock when m_tReady is set: far from and just before it wraps
WaitNow == {U32(5000), U32Sub(U32(0), U32(1000))}

\* the time that passes between two looks at the driver
WaitSteps == {U32(1), U32(99), U32(1000), <<32768, 0>>}

InitWait ==
    /\ now \in WaitNow
    /\ ticks = 0
    /\ loop = LoopObject
    /\ \E w \in WaitVals :
        /\ scd = [m_state |-> "Triggered",
                  m_tReady |-> U32Add(now, U32(w)),
                  m_lastError |-> "Success",
                  m_ProductInfo |-> UninitInfo,
                  m_Measurement |-> UninitMeasurement]
        /\ lastOp = [name |-> "none", val |-> U32(0),
                     wait |-> U32(w), elapsed |-> U32(0)]

Elapse ==
    /\ ticks < MaxWaitTicks
    /\ \E d \in WaitSteps :
        /\ now' = U32Add(now, d)
        /\ lastOp' = [lastOp EXCEPT !.name = "none", !.val = U32(0),
                                    !.elapsed = WideAdd(@, d)]
    /\ ticks' = ticks + 1
    /\ UNCHANGED <<scd, loop>>

GetMsToNextMeasurement ==
    /\ lastOp' = [lastOp EXCEPT !.name = "getMsToNextMeasurement",
                                !.val = getMsToNextMeasurement(scd, now)]
    /\ UNCHANGED <<now, ticks, scd, loop>>

NextWait == Elapse \/ GetMsToNextMeasurement

SpecWait == InitWait /\ [][NextWait]_vars

\* C14: getMsToNextMeasurement() returns 0 when the ready time has been
\* reached (at least the wait has passed since m_tReady was set) and
\* m_tReady - now modulo 2^32, the time still to wait, otherwise, however
\* much time has passed.
C14_NeverPastAsFuture ==
    lastOp.name = "getMsToNextMeasurement" =>
        IF WideGeq(lastOp.elapsed, lastOp.wait)
        THEN lastOp.val = U32(0)
        ELSE /\ lastOp.val = U32Sub(scd.m_tReady, now)
             /\ WideAdd(lastOp.elapsed, lastOp.val) = lastOp.wait

(***************************************************************************)
(* cSCD30::crc as a function: every pair of bytes is an input, and the     *)
(* function is called on it repeatedly.                                    *)
(***************************************************************************)
MaxCrcCalls == 2

Byte == 0..255

InitCrc ==
    /\ now = U32(0)
    /\ ticks = 0
    /\ loop = LoopObject
    /\ scd = ZeroScd
    /\ \E b1 \in Byte, b2 \in Byte :
            lastOp = [name |-> "none", buf |-> <<b1, b2>>, val |-> 0]

Crc ==
    /\ ticks < MaxCrcCalls
    /\ ticks' = ticks + 1
    /\ lastOp' = [lastOp EXCEPT !.name = "crc", !.val = crc(lastOp.buf)]
    /\ UNCHANGED <<now, scd, loop>>

NextCrc == Crc

SpecCrc == InitCrc /\ [][NextCrc]_vars

\* the CRC-8 of the data sheet, bit by bit: polynomial 0x31 (x^8 + x^5 + x^4
\* + 1), initial value 0xFF, no reflection, no final xor
crc8Shift(c) ==
    IF c >= 128 THEN Xor8((c * 2) % 256, 49) ELSE (c * 2) % 256

RECURSIVE crc8Bits(_, _)
crc8Bits(c, n) == IF n = 0 THEN c ELSE crc8Bits(crc8Shift(c), n - 1)

RECURSIVE crc8BitwiseFrom(_, _, _)
crc8BitwiseFrom(buf, i, c) ==
    IF i > Len(buf) THEN c
    ELSE crc8BitwiseFrom(buf, i + 1, crc8Bits(Xor8(c, buf[i]), 8))

crc8Bitwise(buf) == crc8BitwiseFrom(buf, 1, 255)

\* C15: for each of the 65536 two-byte inputs crc() returns the bitwise
\* CRC-8 (polynomial 0x31, initial value 0xFF); it returns 0x92 for
\* {0xBE, 0xEF}; and a repeated call on the same input returns the same
\* value.
C15_CrcIsCrc8 ==
    /\ [](lastOp.name = "crc" =>
            /\ lastOp.val = crc8Bitwise(lastOp.buf)
            /\ lastOp.buf = <<190, 239>> => lastOp.val = 146)
    /\ [][(lastOp.name = "crc" /\ lastOp'.name = "crc"
                /\ lastOp'.buf = lastOp.buf) => lastOp'.val = lastOp.val]_vars

\* the test vector of the data sheet, computed twice
C15_Witness ==
    /\ lastOp.name = "crc" /\ ticks = 2
    /\ lastOp.buf = <<190, 239>> /\ lastOp.val = 146

(***************************************************************************)
(* cSCD30::readResponse as a function of the length asked for and of what  *)
(* the bus returns, after a command has been written.                      *)
(***************************************************************************)
MaxResponseLen == 33
MaxResponses == 2

ResponseLens == 0..MaxResponseLen

ResponseCommands == {Command.ReadMeasurement, Command.GetDataReady}

\* the read succeeds, comes short, or carries a wrong CRC
ResponseIo ==
    IoOk(FlagVals, MeasVals)
        \cup { io \in IoFail(1, FlagVals, MeasVals) : io.kind \in ReadKinds }

InitResponse ==
    /\ now = U32(0)
    /\ ticks = 0
    /\ loop = LoopObject
    /\ scd = [ZeroScd EXCEPT !.m_state = "Triggered"]
    /\ lastOp = [name |-> "none", arg |-> 0, ret |-> TRUE, log |-> <<>>,
                 errSet |-> FALSE, buf |-> <<>>]

ReadResponse ==
    /\ ticks < MaxResponses
    /\ ticks' = ticks + 1
    /\ \E r \in { [n |-> nBuf,
                   c |-> readResponse(
                            writeCommand(Call(scd), cmd, io),
                            nBuf, io)] :
                    nBuf \in ResponseLens, cmd \in ResponseCommands,
                    io \in ResponseIo } :
            /\ scd' = r.c.d
            /\ lastOp' = [name |-> "readResponse", arg |-> r.n,
                          ret |-> r.c.ret, log |-> r.c.log,
                          errSet |-> r.c.errSet, buf |-> r.c.buf]
    /\ UNCHANGED <<now, loop>>

NextResponse == ReadResponse

SpecResponse == InitResponse /\ [][NextResponse]_vars

\* the 3-byte groups of buf whose third byte is not the CRC of the other two
BadGroups(buf) ==
    { g \in 0..((Len(buf) \div 3) - 1) :
            crc(<<buf[3 * g + 1], buf[3 * g + 2]>>) # buf[3 * g + 3] }

\* C16: readResponse fails with InternalInvalidParameter, without a bus
\* transaction, for every length that is not a positive multiple of 3,
\* length 0 included; for a positive multiple of 3 it fails with Crc when
\* the response read has a group whose CRC is wrong, and succeeds only when
\* every group verifies.
C16_RejectsBadLength ==
    lastOp.name = "readResponse" =>
        LET nBuf == lastOp.arg
            reads == SelectSeq(lastOp.log, LAMBDA e : e.t = "r")
        IN  IF nBuf = 0 \/ nBuf % 3 # 0
            THEN /\ ~lastOp.ret
                 /\ scd.m_lastError = "InternalInvalidParameter"
                 /\ reads = <<>>
            ELSE /\ (Len(lastOp.buf) = nBuf /\ BadGroups(lastOp.buf) # {})
                        => (~lastOp.ret /\ scd.m_lastError = "Crc")
                 /\ lastOp.ret =>
                        (Len(lastOp.buf) = nBuf /\ BadGroups(lastOp.buf) = {})

(***************************************************************************)
(* The lifecycle of m_state.                                               *)
(***************************************************************************)
\* the changes of state of the specified lifecycle
SpecifiedLifecycle ==
    { <<"Uninitialized", "End">>, <<"Uninitialized", "Initial">>,
      <<"Uninitialized", "Idle">>, <<"Initial", "Triggered">>,
      <<"Idle", "Triggered">>, <<"Triggered", "Ready">>,
      <<"Ready", "Triggered">> }

\* the changes of state the public methods make: <<from, method, to>>
LifecycleSteps ==
    { <<"Uninitialized", "begin", "Initial">>,
      <<"End", "begin", "Triggered">>,
      <<"End", "begin", "Uninitialized">>,
      <<"Initial", "end", "End">>,
      <<"Triggered", "end", "End">>,
      <<"Ready", "end", "End">>,
      <<"Initial", "startContinuousMeasurement", "Triggered">>,
      <<"Ready", "startContinuousMeasurement", "Triggered">>,
      <<"Initial", "queryReady", "Triggered">>,
      <<"Initial", "queryReady", "Ready">>,
      <<"Triggered", "queryReady", "Ready">>,
      <<"Initial", "readMeasurement", "Triggered">>,
      <<"Initial", "readMeasurement", "Ready">>,
      <<"Triggered", "readMeasurement", "Ready">>,
      <<"Ready", "readMeasurement", "Triggered">> }

\* C17 as stated: every change of m_state is one of Uninitialized to End,
\* Uninitialized to Initial or Idle, Initial or Idle to Triggered, Triggered
\* to Ready, Ready to Triggered.
C17_AsStated ==
    [][scd'.m_state # scd.m_state =>
            <<scd.m_state, scd'.m_state>> \in SpecifiedLifecycle]_vars

\* C17 amended: every change of m_state is one of: begin() takes
\* Uninitialized to Initial and End to Triggered, or End to Uninitialized
\* when its reads fail; end() takes Initial, Triggered and Ready to End;
\* startContinuousMeasurement() takes Initial and Ready to Triggered;
\* queryReady() takes Initial to Triggered (flag clear, start command sent)
\* and Initial and Triggered to Ready; readMeasurement() does the same and
\* takes Ready to Triggered.  A queryReady() enters Ready only from Initial
\* or Triggered, at or after the ready time, with the data-ready flag read
\* as set; a readMeasurement() from Ready whose command is written ends in
\* Triggered.
C17_Lifecycle ==
    /\ [][scd'.m_state # scd.m_state =>
            <<scd.m_state, lastOp'.name, scd'.m_state>> \in LifecycleSteps]_vars
    /\ [](\A io \in QueryReadyIo :
            LET q == queryReady(Call(scd), now, io)
            IN  (q.d.m_state = "Ready" /\ scd.m_state # "Ready") =>
                    /\ scd.m_state \in {"Initial", "Triggered"}
                    /\ ~BeforeReady
                    /\ Commands(q.log) = <<Command.GetDataReady>>
                    /\ io.kind = "Ok" /\ io.v # 0
                    /\ q.ret /\ ~q.fError)
    /\ [](scd.m_state = "Ready" =>
            \A io \in FetchIo :
                LET r == readMeasurement(Call(scd), now, io)
                IN  IF WireWrite(io, 1) = "Ok"
                    THEN r.d.m_state = "Triggered"
                    ELSE r.d.m_state = "Ready" /\ ~r.ret)

\* a fetch from Ready has returned the driver to Triggered
C17_Witness ==
    /\ lastOp.name = "readMeasurement" /\ lastOp.ret
    /\ Commands(lastOp.log) = <<Command.ReadMeasurement>>
    /\ scd.m_state = "Triggered"

(***************************************************************************)
(* The requests m_rqActive and m_rqInactive.                               *)
(***************************************************************************)
\* C18: the step from stInactive to stWake is taken on an activate request,
\* the step from stSleeping to stInactive with a deactivate request pending
\* consumes it, and after either both m_rqActive and m_rqInactive are
\* false; every other step that changes one of the two flags is a call of
\* requestActive(), which sets one of them.
C18_RequestsConsumedTogether ==
    [][LET activated   == loop.state = "stInactive" /\ loop'.state = "stWake"
           deactivated == /\ loop.state = "stSleeping" /\ loop.m_rqInactive
                          /\ loop'.state = "stInactive"
       IN  /\ activated => loop.m_rqActive
           /\ (activated \/ deactivated) =>
                    (~loop'.m_rqActive /\ ~loop'.m_rqInactive)
           /\ (loop'.m_rqActive # loop.m_rqActive
                    \/ loop'.m_rqInactive # loop.m_rqInactive) =>
                    \/ activated
                    \/ deactivated
                    \/ \E fEnable \in BOOLEAN :
                            /\ loop' = [requestActive(loop, fEnable)
                                            EXCEPT !.evaluating = TRUE]
                            /\ IF fEnable THEN loop'.m_rqActive
                               ELSE loop'.m_rqInactive]_vars

\* an activate request has been consumed
C18_Witness ==
    /\ lastOp.name = "fsmDispatch" /\ lastOp.arg = "stInactive"
    /\ loop.state = "stWake" /\ loop.m_active
    /\ ~loop.m_rqActive /\ ~loop.m_rqInactive

(***************************************************************************)
(* fsmDispatch in stSleeping as a function of the orchestrator, of the     *)
(* driver and of the time left to the driver's ready time.                 *)
(***************************************************************************)
\* m_tReady - millis() when stSleeping is evaluated: before the ready time,
\* on both sides of the two thresholds, and 1 ms after it
SleepingWaits ==
    {U32(1), U32(19), U32(20), U32(500), U32(501), U32(3000),
     U32Sub(U32(0), U32(1))}

InitSleeping ==
    /\ now \in InitNow
    /\ ticks = 0
    /\ lastOp = NoOp
    /\ \E st \in {"Uninitialized", "Initial", "Triggered", "Ready"},
          w \in SleepingWaits :
            scd = [ZeroScd EXCEPT
                        !.m_state = st,
                        !.m_tReady = U32Add(now, w),
                        !.m_ProductInfo.MeasurementInterval = 2]
    /\ \E rqA, rqI, fEntry, printed \in BOOLEAN :
            loop = [LoopObject EXCEPT
                        !.state = "stSleeping", !.fEntry = fEntry,
                        !.m_active = TRUE,
                        !.m_rqActive = rqA, !.m_rqInactive = rqI,
                        !.m_fPrintedSleeping = printed]

\* the engine calls fsmDispatch as long as the state is stSleeping
SleepingDispatch == loop.state = "stSleeping" /\ FsmDispatch

NextSleeping == SleepingDispatch

SpecSleeping == InitSleeping /\ [][NextSleeping]_vars

\* whether fsmDispatch called the sleep policy
Slept(x) == \E i \in DOMAIN x.calls : x.calls[i] = "sleep"

\* C19 as stated: fsmDispatch in stSleeping moves only to stInactive, and
\* only with a deactivate request pending, or to stWake, and only when the
\* driver's time to the next measurement is below 20 ms; otherwise it stays
\* in stSleeping, calling sleep() exactly when that time is above 500 ms.
C19_AsStated ==
    loop.state = "stSleeping" =>
        \A in \in DispatchInputs("stSleeping") :
            LET x  == fsmDispatch(Dispatch(loop, scd, now), "stSleeping",
                                  loop.fEntry, in)
                q  == queryReady(Call(scd), now, in.io)
                ms == getMsToNextMeasurement(q.d, now)
            IN  /\ x.newState \in {"stNoChange", "stInactive", "stWake"}
                /\ x.newState = "stInactive" => loop.m_rqInactive
                /\ x.newState = "stWake" => U32Less(ms, 20)
                /\ Slept(x) <=>
                        (x.newState = "stNoChange" /\ U32Greater(ms, 500))

\* C19 amended: fsmDispatch in stSleeping moves to stInactive on a
\* deactivate request, without asking the driver; otherwise to stMeasure
\* when queryReady() returns true; otherwise to stInactive, still marked
\* active, when queryReady() reports an error; otherwise to stWake when
\* getMsToNextMeasurement() is below 20 ms; otherwise it stays in
\* stSleeping, calling sleep() exactly when that time is above 500 ms.
C19_SleepingExits ==
    loop.state = "stSleeping" =>
        \A in \in DispatchInputs("stSleeping") :
            LET x  == fsmDispatch(Dispatch(loop, scd, now), "stSleeping",
                                  loop.fEntry, in)
                q  == queryReady(Call(scd), now, in.io)
                ms == getMsToNextMeasurement(q.d, now)
            IN  /\ x.newState =
                        IF loop.m_rqInactive THEN "stInactive"
                        ELSE IF q.ret THEN "stMeasure"
                        ELSE IF q.fError THEN "stInactive"
                        ELSE IF U32Less(ms, 20) THEN "stWake"
                        ELSE "stNoChange"
                /\ loop.m_rqInactive => (x.calls = <<>> /\ ~x.l.m_active)
                /\ ~loop.m_rqInactive =>
                        /\ x.calls[1] = "queryReady"
                        /\ x.l.m_active
                        /\ x.l.m_rqActive = loop.m_rqActive
                /\ Slept(x) <=>
                        /\ ~loop.m_rqInactive /\ ~q.ret /\ ~q.fError
                        /\ U32Greater(ms, 500)
                /\ Slept(x) => x.newState = "stNoChange"

\* the orchestrator has gone from stSleeping to stWake, 19 ms before the
\* driver's ready time
C19_Witness ==
    /\ lastOp.name = "fsmDispatch" /\ lastOp.arg = "stSleeping"
    /\ lastOp.log = <<"queryReady">>
    /\ loop.state = "stWake"
    /\ getMsToNextMeasurement(scd, now) = U32(19)

(***************************************************************************)
(* checkDeepSleep as a function of the time to the driver's ready time and *)
(* of the operating flags and Serial.dtr().                                *)
(***************************************************************************)
MaxDeepSleepChecks == 2

\* every combination of the three operating flags and Serial.dtr()
AllFlags ==
    [fDeepSleepTest : BOOLEAN, dtr : BOOLEAN, fDisableDeepSleep : BOOLEAN,
     fUnattended : BOOLEAN]

\* m_tReady - millis(): 0, 1, 2 and more whole seconds, and 1 ms past
RemainingWaits ==
    {U32(0), U32(999), U32(1000), U32(1999), U32(2000), U32(2001),
     U32(1801000), U32Sub(U32(0), U32(1))}

InitDeepSleep ==
    /\ now \in InitNow
    /\ ticks = 0
    /\ loop = [LoopObject EXCEPT !.state = "stSleeping", !.m_active = TRUE]
    /\ \E w \in RemainingWaits :
            scd = [ZeroScd EXCEPT !.m_state = "Triggered",
                                  !.m_tReady = U32Add(now, w)]
    /\ lastOp = [name |-> "none", ret |-> FALSE,
                 flags |-> CHOOSE f \in AllFlags : TRUE]

CheckDeepSleep ==
    /\ ticks < MaxDeepSleepChecks
    /\ ticks' = ticks + 1
    /\ \E flags \in AllFlags :
            lastOp' = [name |-> "checkDeepSleep",
                       ret |-> checkDeepSleep(Dispatch(loop, scd, now), flags),
                       flags |-> flags]
    /\ UNCHANGED <<now, scd, loop>>

NextDeepSleep == CheckDeepSleep

SpecDeepSleep == InitDeepSleep /\ [][NextDeepSleep]_vars

\* C20: checkDeepSleep() chooses deep sleep exactly when at least 2 whole
\* seconds remain and either the test-mode flag is set or, with no console
\* attached and deep sleep not disabled, the unattended flag is set; with
\* less than 2 s remaining it chooses light sleep whatever the flags.
C20_SleepDepth ==
    lastOp.name = "checkDeepSleep" =>
        LET remaining == U32Div1000(getMsToNextMeasurement(scd, now))
            f == lastOp.flags
        IN  /\ remaining < 2 => ~lastOp.ret
            /\ (remaining >= 2 /\ f.fDeepSleepTest) => lastOp.ret
            /\ (remaining >= 2 /\ ~f.fDeepSleepTest /\ f.dtr) => ~lastOp.ret
            /\ (remaining >= 2 /\ ~f.fDeepSleepTest /\ ~f.dtr
                    /\ f.fDisableDeepSleep) => ~lastOp.ret
            /\ (remaining >= 2 /\ ~f.fDeepSleepTest /\ ~f.dtr
                    /\ ~f.fDisableDeepSleep) => (lastOp.ret <=> f.fUnattended)

\* light sleep chosen in test mode, unattended, with 1999 ms remaining
C20_Witness ==
    /\ lastOp.name = "checkDeepSleep" /\ ~lastOp.ret
    /\ lastOp.flags.fDeepSleepTest /\ lastOp.flags.fUnattended
    /\ getMsToNextMeasurement(scd, now) = U32(1999)

(***************************************************************************)
(* fillTxBuffer as a function of the orchestrator's flags, of the driver's *)
(* cached measurement and of the battery and boot-count readers, called    *)
(* build after build.                                                      *)
(***************************************************************************)
MaxBuilds == 2

\* CO2 readings as the driver caches them: 412.5, +0.0 and -0.0
PayloadCO2 == {<<17358, 16384>>, <<0, 0>>, <<32768, 0>>}

\* 25.0 degrees C and 50.0 %
PayloadTemperature == <<16840, 0>>
PayloadHumidity == <<16968, 0>>

\* getBootCount(): no counter, or a count
BootCounts == {[ok |-> FALSE, count |-> U32(0)], [ok |-> TRUE, count |-> U32(7)]}

\* ReadVbat() in millivolts
PayloadVbat == U32(3300)

PayloadState(fSCD, valid, co2) ==
    /\ loop = [LoopObject EXCEPT !.state = "stTransmit", !.m_active = TRUE,
                                 !.m_fSCD = fSCD,
                                 !.m_measurement_valid = valid]
    /\ scd = [ZeroScd EXCEPT !.m_state = "Triggered",
                             !.m_Measurement =
                                Measurement(co2, PayloadTemperature,
                                            PayloadHumidity)]

InitPayload ==
    /\ now \in InitNow
    /\ ticks = 0
    /\ \E fSCD, valid \in BOOLEAN, co2 \in PayloadCO2 :
            PayloadState(fSCD, valid, co2)
    /\ lastOp = [name |-> "none", buf |-> <<>>, boot |-> FALSE,
                 prev |-> <<>>]

\* a cycle of the orchestrator has left another measurement and validity
NextCycle ==
    /\ lastOp.name = "fillTxBuffer"
    /\ \E fSCD, valid \in BOOLEAN, co2 \in PayloadCO2 :
            /\ loop' = [loop EXCEPT !.m_fSCD = fSCD,
                                    !.m_measurement_valid = valid]
            /\ scd' = [scd EXCEPT !.m_Measurement.CO2ppm = co2]
    /\ lastOp' = [lastOp EXCEPT !.name = "none"]
    /\ UNCHANGED <<now, ticks>>

FillTxBuffer ==
    /\ ticks < MaxBuilds
    /\ lastOp.name = "none"
    /\ ticks' = ticks + 1
    /\ \E boot \in BootCounts :
            lastOp' = [name |-> "fillTxBuffer",
                       buf |-> fillTxBuffer(loop, scd, PayloadVbat, boot),
                       boot |-> boot.ok,
                       prev |-> lastOp.buf]
    /\ UNCHANGED <<now, scd, loop>>

NextPayload == FillTxBuffer \/ NextCycle

SpecPayload == InitPayload /\ [][NextPayload]_vars

\* the fields of a built buffer, in order, and its flags byte
Fields(buf) == [i \in 1..(Len(buf) - 2) |-> buf[i + 2].field]

FlagsByte(buf) == buf[2].v[2]

HasBit(flags, bit) == (flags \div bit) % 2 = 1

\* C21: in a buffer built with a valid measurement the CO2 bit is set and
\* a 2-byte CO2 field is appended exactly when the CO2 value is not 0.0;
\* with CO2 equal to 0.0 the bit is clear and there is no CO2 field, while
\* the temperature and humidity fields and their bit are present.
C21_CO2OnlyIfNonZero ==
    (lastOp.name = "fillTxBuffer" /\ loop.m_fSCD /\ loop.m_measurement_valid)
        =>
        LET buf == lastOp.buf
            co2 == { i \in DOMAIN buf : buf[i].field = "CO2ppm" }
            nonZero == scd.m_Measurement.CO2ppm = <<17358, 16384>>
        IN  /\ HasBit(FlagsByte(buf), 8) <=> nonZero
            /\ nonZero =>
                    /\ co2 = {Len(buf)}
                    /\ buf[Len(buf)] =
                            Put("put2", "CO2ppm", scd.m_Measurement.CO2ppm)
            /\ ~nonZero => co2 = {}
            /\ HasBit(FlagsByte(buf), 4)
            /\ \E i \in DOMAIN buf :
                    /\ buf[i] = Put("put2", "Temperature", PayloadTemperature)
                    /\ buf[i + 1] =
                            Put("put2", "RelativeHumidity", PayloadHumidity)

\* a buffer built with a valid measurement whose CO2 is 0.0
C21_Witness ==
    /\ lastOp.name = "fillTxBuffer"
    /\ loop.m_fSCD /\ loop.m_measurement_valid
    /\ scd.m_Measurement.CO2ppm = <<0, 0>>
    /\ Fields(lastOp.buf) = <<"Vbat", "Boot", "Temperature", "RelativeHumidity">>
    /\ FlagsByte(lastOp.buf) = 7

(***************************************************************************)
(* The completion callback delivered from another execution context: an    *)
(* interrupt or a task of the transport may run sendBufferDoneCb while an  *)
(* eval() of the engine is in progress in the loop.                        *)
(***************************************************************************)
SendBufferDoneAsync ==
    /\ loop.evaluating
    /\ loop.txInFlight
    /\ \E fSuccess \in BOOLEAN :
        loop' = [sendBufferDone(loop, fSuccess) EXCEPT !.evaluating = TRUE]
    /\ UNCHANGED <<now, ticks, scd, lastOp>>

NextLoopAsync ==
    \/ FsmDispatch
    \/ Poll
    \/ PollLater
    \/ RequestActive
    \/ SendBufferDoneCb
    \/ SendBufferDoneAsync

SpecLoopAsync == InitLoop /\ [][NextLoopAsync]_vars

\* C22: the completion callback is never processed while an evaluation of
\* the FSM is in progress, and the evaluation it triggers starts with the
\* completion flags recorded: m_txpending false, m_txcomplete true.
C22_LatchedHandoff ==
    [][(loop.txInFlight /\ ~loop'.txInFlight) =>
            /\ ~loop.evaluating
            /\ loop'.evaluating
            /\ ~loop'.m_txpending /\ loop'.m_txcomplete]_vars

(***************************************************************************)
(* Properties of stMeasure and of m_measurement_valid.                     *)
(***************************************************************************)
\* C23: fsmDispatch in stMeasure returns stSleepSensor when queryReady()
\* returns true or reports an error, and no change otherwise;
\* m_measurement_valid is false after the first call in stMeasure unless a
\* readMeasurement() made in that call returned true, and stays false while
\* the orchestrator waits in stMeasure, so that on leaving it is true exactly
\* when readMeasurement() was called and returned true; stSleepSensor hands
\* it unchanged to the entry of stTransmit, where the payload is built.
C23_ValidFromThisVisit ==
    /\ []((loop.state = "stMeasure" /\ ~loop.fEntry)
                => ~loop.m_measurement_valid)
    /\ [](loop.state = "stMeasure" =>
            \A in \in DispatchInputs("stMeasure") :
                LET x == fsmDispatch(Dispatch(loop, scd, now), "stMeasure",
                                     loop.fEntry, in)
                    q == queryReady(Call(scd), now, in.io)
                    r == readMeasurement(Call(q.d), now, in.ioRead)
                IN  /\ x.newState = IF q.ret \/ q.fError THEN "stSleepSensor"
                                    ELSE "stNoChange"
                    /\ x.l.m_measurement_valid = (q.ret /\ r.ret)
                    /\ x.calls = IF q.ret
                                 THEN <<"queryReady", "readMeasurement">>
                                 ELSE <<"queryReady">>)
    /\ [][/\ (loop.state = "stMeasure" /\ loop'.state # "stMeasure") =>
                (loop'.state = "stSleepSensor"
                    /\ lastOp'.name = "fsmDispatch"
                    /\ lastOp'.arg = "stMeasure"
                    /\ loop'.m_measurement_valid =>
                            lastOp'.log = <<"queryReady", "readMeasurement">>)
          /\ loop.state = "stSleepSensor" =>
                (loop'.state = "stTransmit" /\ loop'.fEntry
                    /\ loop'.m_measurement_valid = loop.m_measurement_valid)
          /\ (loop'.state = "stTransmit" /\ loop.state # "stTransmit") =>
                loop.state = "stSleepSensor"
          /\ (loop'.state = "stMeasure" /\ loop.state # "stMeasure") =>
                loop'.fEntry]_vars

\* a cycle after one whose payload was sent comes to build its payload with
\* an invalid measurement
C23_Witness ==
    /\ loop.state = "stTransmit" /\ loop.fEntry
    /\ ~loop.m_measurement_valid
    /\ loop.m_txcomplete /\ ~loop.m_txerr
    /\ lastOp.name = "fsmDispatch" /\ lastOp.arg = "stSleepSensor"

(***************************************************************************)
(* Properties of stTransmit.                                               *)
(***************************************************************************)
\* C24: the first call of fsmDispatch in stTransmit starts the send; when
\* SendBuffer() refuses it, m_txcomplete and m_txerr are set at once and the
\* same call returns stSleeping; when it accepts, the call returns no
\* change and the completion is outstanding.  A later call returns
\* stSleeping exactly when m_txcomplete is set, which only the callback of
\* the outstanding send does.  stTransmit is left only to stSleeping, with
\* m_txcomplete set and no send outstanding.
C24_TransmitExits ==
    /\ [](loop.state = "stTransmit" =>
            \A in \in DispatchInputs("stTransmit") :
                LET x == fsmDispatch(Dispatch(loop, scd, now), "stTransmit",
                                     loop.fEntry, in)
                IN  IF loop.fEntry
                    THEN /\ x.calls = <<"SendBuffer">>
                         /\ IF in.sent
                            THEN /\ x.newState = "stNoChange"
                                 /\ ~x.l.m_txcomplete /\ x.l.txInFlight
                            ELSE /\ x.newState = "stSleeping"
                                 /\ x.l.m_txcomplete /\ x.l.m_txerr
                                 /\ ~x.l.txInFlight
                    ELSE /\ x.calls = <<>> /\ x.l = loop
                         /\ x.newState = IF loop.m_txcomplete
                                         THEN "stSleeping" ELSE "stNoChange")
    /\ []((loop.state = "stTransmit" /\ ~loop.fEntry) =>
            (loop.m_txcomplete <=> ~loop.txInFlight))
    /\ [][/\ (loop.state = "stTransmit" /\ loop'.state # "stTransmit") =>
                (loop'.state = "stSleeping" /\ loop'.m_txcomplete
                    /\ ~loop'.txInFlight)
          /\ (loop.state = "stTransmit" /\ ~loop.fEntry
                /\ ~loop.m_txcomplete /\ loop'.m_txcomplete) =>
                (loop.txInFlight /\ ~loop'.txInFlight
                    /\ loop'.state = "stTransmit")]_vars

\* a refused send has taken the orchestrator to stSleeping in one call
C24_Witness ==
    /\ lastOp.name = "fsmDispatch" /\ lastOp.arg = "stTransmit"
    /\ lastOp.log = <<"SendBuffer">>
    /\ loop.state = "stSleeping"
    /\ loop.m_txcomplete /\ loop.m_txerr

\* C25: in every built buffer the first put is the format byte and the
\* second the flags byte; the fields after them are the battery voltage,
\* then the boot count if getBootCount() gave one, then temperature and
\* humidity if m_fSCD and m_measurement_valid, then CO2 if moreover it is
\* not 0.0; the flags byte has exactly the bits of the fields present
\* (Vbat 1, Boot 2, TH 4, CO2 8), whatever the build before it contained.
C25_FlagsOfThisBuild ==
    lastOp.name = "fillTxBuffer" =>
        LET buf  == lastOp.buf
            has(f) == \E i \in 1..Len(Fields(buf)) : Fields(buf)[i] = f
            th   == loop.m_fSCD /\ loop.m_measurement_valid
            co2  == th /\ scd.m_Measurement.CO2ppm = <<17358, 16384>>
        IN  /\ buf[1].field = "kMessageFormat" /\ buf[2].field = "flags"
            /\ Fields(buf) =
                    <<"Vbat">>
                    \o (IF lastOp.boot THEN <<"Boot">> ELSE <<>>)
                    \o (IF th THEN <<"Temperature", "RelativeHumidity">>
                        ELSE <<>>)
                    \o (IF co2 THEN <<"CO2ppm">> ELSE <<>>)
            /\ FlagsByte(buf) < 16
            /\ HasBit(FlagsByte(buf), 1) /\ has("Vbat")
            /\ HasBit(FlagsByte(buf), 2) <=> lastOp.boot
            /\ HasBit(FlagsByte(buf), 2) <=> has("Boot")
            /\ HasBit(FlagsByte(buf), 4) <=> th
            /\ HasBit(FlagsByte(buf), 4) <=>
                    (has("Temperature") /\ has("RelativeHumidity"))
            /\ HasBit(FlagsByte(buf), 8) <=> has("CO2ppm")
            /\ HasBit(FlagsByte(buf), 8) => HasBit(FlagsByte(buf), 4)

\* a build with the battery field only, after a build with every field
C25_Witness ==
    /\ lastOp.name = "fillTxBuffer" /\ ticks = 2
    /\ lastOp.prev # <<>> /\ FlagsByte(lastOp.prev) = 15
    /\ FlagsByte(lastOp.buf) = 1
    /\ Fields(lastOp.buf) = <<"Vbat">>

(***************************************************************************)
(* Deep sleep and the driver's ready time.                                 *)
(***************************************************************************)
\* C26: the orchestrator comes from stSleeping to stMeasure again also when
\* sleep() selects deep sleep: a call of fsmDispatch in stSleeping that makes
\* a deep sleep and restarts the driver leaves less time to the driver's
\* ready time than there was before it.
C26_DeepSleepMakesProgress ==
    [][(loop.state = "stSleeping" /\ ticks' = ticks + 1 /\ loop'.m_fSCD) =>
            U32Lt(getMsToNextMeasurement(scd', now'),
                  getMsToNextMeasurement(scd, now))]_vars

(***************************************************************************)
(* The active flag and the FSM state.                                      *)
(***************************************************************************)
\* C27: m_active is true exactly when the FSM is in stWake, stMeasure,
\* stSleepSensor, stTransmit or stSleeping, and false in stInitial and
\* stInactive.
C27_ActiveIffCycling ==
    loop.m_active <=>
        loop.state \in {"stWake", "stMeasure", "stSleepSensor",
                        "stTransmit", "stSleeping"}

(***************************************************************************)
(* The transmit status flags.                                              *)
(***************************************************************************)
\* C28: m_txpending and m_txcomplete are never both true, and m_txerr is
\* true only when m_txcomplete is true.
C28_TxFlagsConsistent ==
    /\ ~(loop.m_txpending /\ loop.m_txcomplete)
    /\ loop.m_txerr => loop.m_txcomplete

(***************************************************************************)
(* The states queryReady can meet.                                         *)
(***************************************************************************)
\* C29: the driver is never in Idle, its last error is never NotMeasuring or
\* InternalInvalidState, and queryReady on a running driver ends in one of
\* three ways: true in Ready, false without error and Busy recorded, or
\* false with the error of a failed bus transaction.
C29_NoIdleNoInvalidState ==
    /\ scd.m_state # "Idle"
    /\ scd.m_lastError \notin {"NotMeasuring", "InternalInvalidState"}
    /\ isRunning(scd) =>
        \A io \in QueryReadyIo :
            LET q == queryReady(Call(scd), now, io)
            IN  /\ q.d.m_state \in {"Initial", "Triggered", "Ready"}
                /\ \/ q.ret /\ ~q.fError /\ q.d.m_state = "Ready"
                   \/ ~q.ret /\ ~q.fError /\ q.d.m_lastError = "Busy"
                   \/ /\ ~q.ret /\ q.fError /\ io.kind # "Ok"
                      /\ q.d.m_lastError \notin
                            {"NotMeasuring", "InternalInvalidState", "Busy"}

\* queryReady met Initial at the ready time, found no data and started the
\* measurements
C29_Witness ==
    /\ lastOp.name = "queryReady" /\ ~lastOp.ret /\ ~lastOp.fError
    /\ Len(lastOp.log) = 3
    /\ scd.m_state = "Triggered" /\ scd.m_lastError = "Busy"

(***************************************************************************)
(* startContinuousMeasurement with an ambient pressure.                    *)
(***************************************************************************)
\* C30: startContinuousMeasurement(pressure_mBar) with a pressure outside
\* [700, 1400] returns false with InvalidParameter, makes no bus transaction
\* and leaves the state; with a pressure inside the range, on a running
\* driver, it writes a 5-byte frame: the two bytes of the start command, the
\* pressure as two bytes, high byte first, and the CRC of those two bytes.
C30_PressureFrame ==
    \A p \in PressureArgs, io \in StartIo :
        LET r == startContinuousMeasurementPressure(Call(scd), now, p, io)
            param == <<p \div 256, p % 256>>
        IN  IF p < 700 \/ p > 1400
            THEN /\ ~r.ret /\ r.d.m_lastError = "InvalidParameter"
                 /\ r.log = <<>>
                 /\ r.d.m_state = scd.m_state /\ r.d.m_tReady = scd.m_tReady
            ELSE isRunning(scd) =>
                    /\ Len(r.log) = 1 /\ r.log[1].t = "w"
                    /\ r.log[1].bytes =
                            <<Command.StartContinuousMeasurement \div 256,
                              Command.StartContinuousMeasurement % 256>>
                            \o param \o <<crc(param)>>

(***************************************************************************)
(* The getters of the cached measurement.                                  *)
(***************************************************************************)
\* C31: after a successful readMeasurement, getCO2ppm, getTemperature and
\* getRelativeHumidity return the CO2, temperature and relative-humidity
\* fields of the measurement that getMeasurement returns.
C31_GettersAgree ==
    (lastOp.name = "readMeasurement" /\ lastOp.ret) =>
        /\ getCO2ppm(scd) = getMeasurement(scd).CO2ppm
        /\ getTemperature(scd) = getMeasurement(scd).Temperature
        /\ getRelativeHumidity(scd) = getMeasurement(scd).RelativeHumidity

(***************************************************************************)
(* queryReady when the read of the data-ready status fails.                *)
(***************************************************************************)
\* delays, in ms, of a later call within the 1000 ms after a failed read
RetryDelays == {U32(0), U32(1), U32(999)}

\* C32: a queryReady at or after the ready time in Triggered or Initial
\* whose read of the data-ready status fails returns false with the error
\* flag set, leaves m_state and sets m_tReady to now + 1000; a queryReady
\* made less than 1000 ms later returns false without error, records Busy
\* and makes no bus transaction, whatever the bus would answer.
C32_FailedReadRetriesLater ==
    (scd.m_state \in {"Triggered", "Initial"} /\ ~BeforeReady) =>
        \A io \in QueryReadyIo :
            ~readDataReadyStatus(Call(scd), io).ret =>
                LET q == queryReady(Call(scd), now, io)
                IN  /\ ~q.ret /\ q.fError
                    /\ q.d.m_state = scd.m_state
                    /\ q.d.m_tReady = U32Add(now, U32(1000))
                    /\ q.d.m_lastError \notin {"Success", "Busy"}
                    /\ \A dt \in RetryDelays, io2 \in QueryReadyIo :
                            LET q2 == queryReady(Call(q.d), U32Add(now, dt), io2)
                            IN  /\ ~q2.ret /\ ~q2.fError
                                /\ q2.log = <<>>
                                /\ q2.d.m_lastError = "Busy"
                                /\ q2.d = [q.d EXCEPT !.m_lastError = "Busy"]

\* a queryReady in Triggered, at or after the ready time, whose status read
\* failed on the bus: the retry is set 1000 ms ahead
C32_Witness ==
    /\ lastOp.name = "queryReady" /\ ~lastOp.ret /\ lastOp.fError
    /\ lastOp.log # <<>>
    /\ scd.m_state = "Triggered"
    /\ scd.m_lastError \notin {"Success", "Busy"}
    /\ scd.m_tReady = U32Add(now, U32(1000))

=============================================================================
